---- MODULE Spec2Model ----
(***************************************************************************)
(* Model of the claw-poker table engine (Table, Player), its SecureDeck    *)
(* and the hand evaluator.                                                 *)
(*                                                                         *)
(* Amounts (chips, bets, pot) are JavaScript numbers.  The rake is         *)
(* pot * 0.05, so amounts are not always whole chips: every amount is kept *)
(* as an integer number of units, one chip being Unit units, and Unit is   *)
(* large enough that every rake of MaxHands successive hands is a whole    *)
(* number of units.  The JavaScript value NaN is the distinguished amount  *)
(* NaN, and the arithmetic helpers below follow the IEEE rules for it.     *)
(***************************************************************************)
EXTENDS Integers, Sequences, FiniteSets, TLC

\* ------------------------------------------------------------------ bounds
MaxHands == 2
MaxTime == 0
MaxJoins == 3
MaxLeaves == 1
MaxCompared == 3
NumSeeds == 1
NumDeckSeeds == 3

\* ------------------------------------------------------- table configuration
maxPlayers == 3
smallBlind == 1
bigBlind == 2
minBuyIn == 40
maxBuyIn == 200
RakeDen == 20
rakeMax == 100

\* one chip, in units: every rake of hand h is a multiple of 1/RakeDen^h chip
RECURSIVE Pow(_, _)
Pow(b, e) == IF e = 0 THEN 1 ELSE b * Pow(b, e - 1)

Unit == Pow(RakeDen, MaxHands)

Chips(n) == n * Unit

\* ------------------------------------------------------ JavaScript numbers
NaN == 0 - 1073741824

IsNaN(x) == x = NaN

Add(a, b) == IF IsNaN(a) \/ IsNaN(b) THEN NaN ELSE a + b

Sub(a, b) == IF IsNaN(a) \/ IsNaN(b) THEN NaN ELSE a - b

Lt(a, b) == ~IsNaN(a) /\ ~IsNaN(b) /\ a < b

Gt(a, b) == Lt(b, a)

Le(a, b) == ~IsNaN(a) /\ ~IsNaN(b) /\ a <= b

StrictEq(a, b) == ~IsNaN(a) /\ ~IsNaN(b) /\ a = b

MathMin(a, b) == IF IsNaN(a) \/ IsNaN(b) THEN NaN ELSE IF a < b THEN a ELSE b

MathMax(a, b) == IF IsNaN(a) \/ IsNaN(b) THEN NaN ELSE IF a > b THEN a ELSE b

\* Math.floor of an amount, in whole chips
MathFloor(a) == IF IsNaN(a) THEN NaN ELSE (a \div Unit) * Unit

\* pot * this.rake, with this.rake = 0.05
TimesRake(a) == IF IsNaN(a) THEN NaN ELSE a \div RakeDen

\* potAfterRake / winners.length
DivideBy(a, n) == IF IsNaN(a) THEN NaN ELSE a \div n

\* ------------------------------------------------------------------ phases
WAITING == "waiting"
PREFLOP == "preflop"
FLOP == "flop"
TURN == "turn"
RIVER == "river"
SHOWDOWN == "showdown"

GAME_PHASES == {WAITING, PREFLOP, FLOP, TURN, RIVER, SHOWDOWN}

ActivePhases == {PREFLOP, FLOP, TURN, RIVER}

\* ------------------------------------------------------------ null, -1
\* null, as the value of a seat index (currentPlayerSeat, preferredSeat)
NullSeat == 0 - 2

\* the result of indexOf / findIndex when nothing is found
NotFound == 0 - 1

\* null, as the content of a seat
NoPlayer == <<>>

SeatIndexes == 0 .. (maxPlayers - 1)

\* ------------------------------------------------------------ error kinds
Ok == "ok"
InvalidBuyIn == "InvalidBuyIn"
TableFull == "TableFull"
NotEnoughPlayers == "NotEnoughPlayers"
OutOfTurn == "OutOfTurn"
NoActiveHand == "NoActiveHand"
CannotCheck == "CannotCheck"
NothingToCall == "NothingToCall"
BelowMinRaise == "BelowMinRaise"
InsufficientChips == "InsufficientChips"
EmptyDeck == "EmptyDeck"
TypeError == "TypeError"

EnumeratedErrors ==
  {InvalidBuyIn, TableFull, NotEnoughPlayers, OutOfTurn, NoActiveHand,
   CannotCheck, NothingToCall, BelowMinRaise, InsufficientChips, EmptyDeck}

\* ------------------------------------------------------------ cards, deck
\* SUITS and RANKS by index.  A card (rank, suit) is the number
\* suit * NumRanks + rank; CardValue is Card.value, the index of its rank
NumSuits == 4
NumRanks == 13

Card(rank, suit) == suit * NumRanks + rank

CardValue(c) == c % NumRanks

CardSuit(c) == c \div NumRanks

\* _buildDeck pushing every rank once per suit, all of the first suit
BuildDeckOneSuit == [k \in 1 .. (NumSuits * NumRanks) |-> Card((k - 1) % NumRanks, 0)]

\* SecureDeck._buildDeck: for each suit, for each rank, push the card
\* (cards[k] of the code is position k + 1 here)
BuildDeck == [k \in 1 .. (NumSuits * NumRanks) |->
                Card((k - 1) % NumRanks, (k - 1) \div NumRanks)]

\* crypto.randomBytes(4).readUInt32BE(0) at step i of the shuffle: the random
\* source is an input, one stream of 32-bit values per seed.  Stream `seed'
\* returns i mod (4 + 2 * seed) at step i.
RandomUInt32(seed, i) == i % (4 + 2 * seed)

\* crypto.randomBytes(32).toString('hex'): the salt of stream `seed'
RandomSalt(seed) == seed

Swap(cards, a, b) == [cards EXCEPT ![a] = cards[b], ![b] = cards[a]]

\* SecureDeck._shuffle: for (i = length - 1; i > 0; i--) { j = r % (i + 1); swap }
RECURSIVE ShuffleFrom(_, _, _)
ShuffleFrom(cards, i, seed) ==
  IF i <= 0 THEN cards
  ELSE LET j == RandomUInt32(seed, i) % (i + 1)
       IN  ShuffleFrom(Swap(cards, i + 1, j + 1), i - 1, seed)

Shuffle(cards, seed) == ShuffleFrom(cards, Len(cards) - 1, seed)

\* SUITS and RANKS as the strings Card.toString joins (the suit symbols by name)
SUITS == <<"spade", "heart", "diamond", "club">>
RANKS == <<"2", "3", "4", "5", "6", "7", "8", "9", "10", "J", "Q", "K", "A">>

\* Card.toString: rank then suit
CardToString(c) == <<RANKS[CardValue(c) + 1], SUITS[CardSuit(c) + 1]>>

\* cards.map(c => c.toString())
CardStrings(cards) == [i \in 1 .. Len(cards) |-> CardToString(cards[i])]

\* sha256(deckString + salt): a hash of the card strings in order followed
\* by the salt, here a polynomial hash modulo a prime
HashBase == 53
HashModulus == 1000003

\* the number a card string stands for in the hash
StringCode(str) ==
  LET rank == CHOOSE r \in 1 .. Len(RANKS) : RANKS[r] = str[1]
      suit == CHOOSE u \in 1 .. Len(SUITS) : SUITS[u] = str[2]
  IN  (suit - 1) * NumRanks + rank

\* the hash of the first i card strings
RECURSIVE HashPrefix(_, _)
HashPrefix(strings, i) ==
  IF i = 0 THEN 0
  ELSE (HashPrefix(strings, i - 1) * HashBase + StringCode(strings[i])) % HashModulus

\* createHash('sha256').update(deckString + salt).digest('hex')
Sha256(strings, salt) ==
  (HashPrefix(strings, Len(strings)) * HashBase + salt + 1) % HashModulus

\* SecureDeck._generateCommitment
Hash(cards, salt) == Sha256(CardStrings(cards), salt)

\* SecureDeck constructor: build, shuffle, commit
NewSecureDeck(seed) ==
  LET cards == Shuffle(BuildDeck, seed)
      salt == RandomSalt(seed)
  IN  [cards |-> cards, salt |-> salt, commitment |-> Hash(cards, salt),
       revealed |-> FALSE]

\* the decks the random source can produce, one per seed
Seeds == 0 .. (NumSeeds - 1)

Decks == [seed \in Seeds |-> NewSecureDeck(seed)]

\* the deck before the first hand: this.deck = null
NoDeck == [cards |-> <<>>, salt |-> NotFound, commitment |-> NotFound, revealed |-> FALSE]

\* SecureDeck.deal: cards.pop(); the caller tests DeckEmpty first
DeckEmpty(deck) == Len(deck.cards) = 0

\* the card deal() returns, taken from the other end of the array
FirstCard(deck) == deck.cards[1]

DealtCard(deck) == deck.cards[Len(deck.cards)]

\* deal that takes the card from the front of the array
DeckAfterShift(deck) == [deck EXCEPT !.cards = Tail(deck.cards)]

\* deal that also marks the deck revealed
DealRevealing(deck) ==
  [deck EXCEPT !.cards = SubSeq(deck.cards, 1, Len(deck.cards) - 1),
               !.revealed = TRUE]

DeckAfterDeal(deck) == [deck EXCEPT !.cards = SubSeq(deck.cards, 1, Len(deck.cards) - 1)]

\* SecureDeck.revealSalt
RevealSalt(deck) == [deck EXCEPT !.revealed = TRUE]

\* what revealSalt returns
SaltReveal(deck) ==
  [salt |-> deck.salt, commitment |-> deck.commitment,
   remainingCards |-> CardStrings(deck.cards)]

\* no reveal returned yet
NoReveal == [salt |-> NotFound, commitment |-> NotFound, remainingCards |-> <<>>]

\* ---------------------------------------------------------- hand evaluator
HIGH_CARD == 1
PAIR == 2
TWO_PAIR == 3
THREE_OF_A_KIND == 4
STRAIGHT == 5
FLUSH == 6
FULL_HOUSE == 7
FOUR_OF_A_KIND == 8
STRAIGHT_FLUSH == 9
ROYAL_FLUSH == 10

\* getCombinations(arr, size), in the order the code produces them
RECURSIVE GetCombinations(_, _)
GetCombinations(arr, size) ==
  IF size = 1 THEN [i \in 1 .. Len(arr) |-> <<arr[i]>>]
  ELSE IF Len(arr) = 0 THEN <<>>
  ELSE LET smaller == GetCombinations(Tail(arr), size - 1)
           withHead == [i \in 1 .. Len(smaller) |-> <<Head(arr)>> \o smaller[i]]
       IN  withHead \o GetCombinations(Tail(arr), size)

\* [...cards].sort((a, b) => b.value - a.value): stable, descending by value
RECURSIVE InsertByValue(_, _)
InsertByValue(sorted, c) ==
  IF Len(sorted) = 0 THEN <<c>>
  ELSE IF CardValue(Head(sorted)) >= CardValue(c)
       THEN <<Head(sorted)>> \o InsertByValue(Tail(sorted), c)
       ELSE <<c>> \o sorted

RECURSIVE SortByValueDesc(_)
SortByValueDesc(cards) ==
  IF Len(cards) = 0 THEN <<>>
  ELSE InsertByValue(SortByValueDesc(SubSeq(cards, 1, Len(cards) - 1)), cards[Len(cards)])

\* checkStraight: every rank is one below the rank before it
CheckStraight(ranks) == \A i \in 1 .. (Len(ranks) - 1) : ranks[i] - ranks[i + 1] = 1

\* checkWheelStraight that never finds the wheel
NeverWheelStraight(ranks) == FALSE

\* checkWheelStraight: the sorted ranks are A,5,4,3,2
CheckWheelStraight(ranks) == ranks = <<12, 3, 2, 1, 0>>

\* rankCounts: for every rank of the hand, how many cards have it
RankCounts(ranks) ==
  [r \in {ranks[i] : i \in 1 .. Len(ranks)} |->
     Cardinality({i \in 1 .. Len(ranks) : ranks[i] = r})]

\* the numbers of a set, largest first
RECURSIVE SortDesc(_)
SortDesc(S) ==
  IF S = {} THEN <<>>
  ELSE LET m == CHOOSE x \in S : \A y \in S : x >= y
       IN  <<m>> \o SortDesc(S \ {m})

\* getKickers: the distinct ranks, by count descending, then by rank
\* descending (the sort key count * NumRanks + rank orders them so)
GetKickers(rankCounts) ==
  LET keys == SortDesc({rankCounts[r] * NumRanks + r : r \in DOMAIN rankCounts})
  IN  [i \in 1 .. Len(keys) |-> keys[i] % NumRanks]

\* counts = Object.values(rankCounts).sort(descending)
CountsDesc(rankCounts) ==
  LET keys == SortDesc({rankCounts[r] * NumRanks + r : r \in DOMAIN rankCounts})
  IN  [i \in 1 .. Len(keys) |-> keys[i] \div NumRanks]

Hand(ranking, kickers) == [ranking |-> ranking, kickers |-> kickers]

\* the ranking decided by evaluate5Cards from the sorted ranks, the flush
\* test and the rank counts
Classify(ranks, isFlush, isStraight, isWheelStraight, counts, kickers) ==
  IF isFlush /\ isStraight /\ ranks[1] = 12 THEN Hand(ROYAL_FLUSH, ranks)
  ELSE IF isFlush /\ (isStraight \/ isWheelStraight)
    THEN Hand(STRAIGHT_FLUSH, IF isWheelStraight THEN <<3, 2, 1, 0, -1>> ELSE ranks)
  ELSE IF counts[1] = 4 THEN Hand(FOUR_OF_A_KIND, kickers)
  ELSE IF counts[1] = 3 /\ counts[2] = 2 THEN Hand(FULL_HOUSE, kickers)
  ELSE IF isFlush THEN Hand(FLUSH, ranks)
  ELSE IF isStraight \/ isWheelStraight
    THEN Hand(STRAIGHT, IF isWheelStraight THEN <<3>> ELSE <<ranks[1]>>)
  ELSE IF counts[1] = 3 THEN Hand(THREE_OF_A_KIND, kickers)
  ELSE IF counts[1] = 2 /\ counts[2] = 2 THEN Hand(TWO_PAIR, kickers)
  ELSE IF counts[1] = 2 THEN Hand(PAIR, kickers)
  ELSE Hand(HIGH_CARD, ranks)

Evaluate5Cards(cards) ==
  LET sorted == SortByValueDesc(cards)
      ranks == [i \in 1 .. Len(sorted) |-> CardValue(sorted[i])]
      isFlush == \A i \in 1 .. Len(sorted) : CardSuit(sorted[i]) = CardSuit(sorted[1])
      rankCounts == RankCounts(ranks)
  IN  Classify(ranks, isFlush, CheckStraight(ranks), CheckWheelStraight(ranks),
               CountsDesc(rankCounts), GetKickers(rankCounts))

\* compareHands looking at the first kicker only
CompareFirstKicker(a, b, i) ==
  IF i > Len(a) THEN 0
  ELSE IF i > Len(b) THEN NaN
  ELSE a[i] - b[i]

\* compareHands(a, b): by ranking, then by the first differing kicker of a
RECURSIVE CompareKickers(_, _, _)
CompareKickers(a, b, i) ==
  IF i > Len(a) THEN 0
  ELSE IF i > Len(b) THEN NaN
  ELSE IF a[i] # b[i] THEN a[i] - b[i]
  ELSE CompareKickers(a, b, i + 1)

CompareHands(a, b) ==
  IF a.ranking # b.ranking THEN a.ranking - b.ranking
  ELSE CompareKickers(a.kickers, b.kickers, 1)

\* evaluateHand: the first best of the 5-card combinations
RECURSIVE BestOf(_, _, _)
BestOf(combos, i, best) ==
  IF i > Len(combos) THEN best
  ELSE LET result == Evaluate5Cards(combos[i])
       IN  IF Gt(CompareHands(result, best), 0)
           THEN BestOf(combos, i + 1, result)
           ELSE BestOf(combos, i + 1, best)

EvaluateHand(cards) ==
  LET combos == GetCombinations(cards, 5)
  IN  BestOf(combos, 2, Evaluate5Cards(combos[1]))

\* ------------------------------------------------------------------ players
\* lastAction = null
NoAction == "null"

\* new Player(id, moltbookId, walletAddress, buyIn)
NewPlayer(buyIn) ==
  [chips |-> buyIn, holeCards |-> <<>>, currentBet |-> 0, totalBetThisHand |-> 0,
   folded |-> FALSE, allIn |-> FALSE, lastAction |-> NoAction]

\* Player.reset
ResetPlayer(p) ==
  [p EXCEPT !.holeCards = <<>>, !.currentBet = 0, !.totalBetThisHand = 0,
            !.folded = FALSE, !.allIn = FALSE, !.lastAction = NoAction]

\* `${moltbookId}-${Date.now()}`
PlayerId(moltbookId, time) == <<moltbookId, time>>

\* -------------------------------------------------------------------- table
\* new Table(id, config): the state after construction
NewTable ==
  [seats |-> [s \in SeatIndexes |-> NoPlayer],
   players |-> <<>>,
   deck |-> NoDeck,
   communityCards |-> <<>>,
   pot |-> 0,
   phase |-> WAITING,
   dealerSeat |-> 0,
   currentPlayerSeat |-> NullSeat,
   currentBet |-> 0,
   minRaise |-> Chips(bigBlind),
   handNumber |-> 0,
   deckCommitment |-> NotFound,
   err |-> Ok]

\* throw new Error(...): the state is what it was when the error was thrown
Throw(t, e) == [t EXCEPT !.err = e]

\* this.players.has(id)
HasPlayer(t, id) == id \in DOMAIN t.players

\* this.players.set(id, player)
SetPlayer(players, id, player) ==
  [q \in (DOMAIN players) \cup {id} |-> IF q = id THEN player ELSE players[q]]

\* this.players.delete(id)
DeletePlayer(players, id) == [q \in (DOMAIN players) \ {id} |-> players[q]]

\* this.seats.indexOf(id): the first seat holding id, or -1
IndexOf(seats, id) ==
  IF \E s \in SeatIndexes : seats[s] = id
  THEN CHOOSE s \in SeatIndexes : seats[s] = id /\ \A r \in SeatIndexes : seats[r] = id => s <= r
  ELSE NotFound

\* Table.addPlayer
addPlayer(t, moltbookId, buyIn, preferredSeat, time) ==
  IF Lt(buyIn, Chips(minBuyIn)) \/ Gt(buyIn, Chips(maxBuyIn)) THEN Throw(t, InvalidBuyIn)
  ELSE
    LET seat == IF preferredSeat = NullSeat
                   \/ preferredSeat \notin SeatIndexes
                   \/ t.seats[preferredSeat] # NoPlayer
                THEN IndexOf(t.seats, NoPlayer)
                ELSE preferredSeat
        playerId == PlayerId(moltbookId, time)
    IN  IF seat = NotFound THEN Throw(t, TableFull)
        ELSE [t EXCEPT !.players = SetPlayer(t.players, playerId, NewPlayer(buyIn)),
                       !.seats[seat] = playerId,
                       !.err = Ok]

\* Table.removePlayer
removePlayer(t, playerId) ==
  IF ~HasPlayer(t, playerId) THEN [t EXCEPT !.err = Ok]
  ELSE
    LET seat == IndexOf(t.seats, playerId)
        seats == IF seat # NotFound THEN [t.seats EXCEPT ![seat] = NoPlayer] ELSE t.seats
    IN  [t EXCEPT !.seats = seats,
                  !.players = DeletePlayer(t.players, playerId),
                  !.err = Ok]

\* JavaScript null where an amount is expected
NullChips == NaN - 1

\* Table.removePlayer, lines 119-120 and 128: the value returned, the chips of
\* the removed player or null
RemovedChips(t, playerId) ==
  IF HasPlayer(t, playerId) THEN t.players[playerId].chips ELSE NullChips

\* Card.toJSON
ToJSON(c) == [rank |-> RANKS[CardValue(c) + 1], suit |-> SUITS[CardSuit(c) + 1]]

\* cards.map(c => c.toJSON())
CardsToJSON(cards) == [i \in 1 .. Len(cards) |-> ToJSON(cards[i])]

\* Player.toPublic (isConnected is never set to false)
ToPublic(t, id) ==
  [id |-> id, moltbookId |-> id[1], chips |-> t.players[id].chips,
   currentBet |-> t.players[id].currentBet, folded |-> t.players[id].folded,
   allIn |-> t.players[id].allIn, isConnected |-> TRUE,
   hasCards |-> Len(t.players[id].holeCards) > 0]

\* Table.getGameState (the table's id and name, set at construction, are left
\* out; the players object is keyed by player-id)
GetGameState(t) ==
  [phase |-> t.phase, pot |-> t.pot,
   communityCards |-> CardsToJSON(t.communityCards),
   currentBet |-> t.currentBet, minRaise |-> t.minRaise,
   dealerSeat |-> t.dealerSeat, currentPlayerSeat |-> t.currentPlayerSeat,
   players |-> [id \in DOMAIN t.players |-> ToPublic(t, id)],
   seats |-> t.seats, handNumber |-> t.handNumber,
   deckCommitment |-> t.deckCommitment]

\* publicPlayer of getPublicState with the hole cards in every phase
PublicPlayerWithCards(t, id) ==
  [id |-> id, moltbookId |-> id[1], chips |-> t.players[id].chips,
   currentBet |-> t.players[id].currentBet, folded |-> t.players[id].folded,
   allIn |-> t.players[id].allIn,
   hasCards |-> Len(t.players[id].holeCards) > 0,
   lastAction |-> t.players[id].lastAction,
   holeCards |-> CardsToJSON(t.players[id].holeCards)]

\* Table.getPublicState, lines 279-293: the publicPlayer of one player, with
\* holeCards only at showdown for a player who has not folded and has cards
PublicPlayer(t, id) ==
  LET publicPlayer ==
        [id |-> id, moltbookId |-> id[1], chips |-> t.players[id].chips,
         currentBet |-> t.players[id].currentBet, folded |-> t.players[id].folded,
         allIn |-> t.players[id].allIn,
         hasCards |-> Len(t.players[id].holeCards) > 0,
         lastAction |-> t.players[id].lastAction]
  IN  IF t.phase = SHOWDOWN /\ ~t.players[id].folded /\ Len(t.players[id].holeCards) > 0
      THEN publicPlayer @@ [holeCards |-> CardsToJSON(t.players[id].holeCards)]
      ELSE publicPlayer

\* Table.getPublicState (the table's id and name are left out; the players
\* array is kept as a function of the player-id each entry carries)
GetPublicState(t) ==
  [phase |-> t.phase, pot |-> t.pot,
   communityCards |-> CardsToJSON(t.communityCards),
   currentBet |-> t.currentBet, dealerSeat |-> t.dealerSeat,
   currentPlayerSeat |-> t.currentPlayerSeat,
   players |-> [id \in DOMAIN t.players |-> PublicPlayer(t, id)],
   seats |-> t.seats, handNumber |-> t.handNumber,
   smallBlind |-> Chips(smallBlind), bigBlind |-> Chips(bigBlind)]

\* Table._getActivePlayers (isConnected is never set to false)
GetActivePlayers(t) == {id \in DOMAIN t.players : Gt(t.players[id].chips, 0)}

\* Table._getPlayersInHand
GetPlayersInHand(t) ==
  {id \in DOMAIN t.players : ~t.players[id].folded /\ Len(t.players[id].holeCards) > 0}

\* the first occupied seat after `seat', cyclically (the do-while of
\* _moveDealer and _getBigBlindSeat); the caller has an occupied seat
RECURSIVE NextOccupiedSeat(_, _)
NextOccupiedSeat(seats, seat) ==
  LET next == (seat + 1) % maxPlayers
  IN  IF seats[next] # NoPlayer THEN next ELSE NextOccupiedSeat(seats, next)

\* Table._moveDealer
MoveDealer(t) == [t EXCEPT !.dealerSeat = NextOccupiedSeat(t.seats, t.dealerSeat)]

\* Table._getSmallBlindSeat
GetSmallBlindSeat(t) == NextOccupiedSeat(t.seats, t.dealerSeat)

\* Table._getBigBlindSeat
GetBigBlindSeat(t) == NextOccupiedSeat(t.seats, GetSmallBlindSeat(t))

\* _postBlinds taking the whole blind whatever the poster's stack
PostWholeBlinds(t) ==
  LET sbId == t.seats[GetSmallBlindSeat(t)]
      bbId == t.seats[GetBigBlindSeat(t)]
  IN  IF ~HasPlayer(t, sbId) \/ ~HasPlayer(t, bbId) THEN Throw(t, TypeError)
      ELSE
        LET sbAmount == Chips(smallBlind)
            bbAmount == Chips(bigBlind)
            t1 == [t EXCEPT !.players[sbId].chips = Sub(@, sbAmount),
                            !.players[sbId].currentBet = sbAmount,
                            !.players[sbId].totalBetThisHand = sbAmount,
                            !.pot = Add(@, sbAmount)]
            t2 == [t1 EXCEPT !.players[bbId].chips = Sub(@, bbAmount),
                             !.players[bbId].currentBet = bbAmount,
                             !.players[bbId].totalBetThisHand = bbAmount,
                             !.pot = Add(@, bbAmount)]
            t3 == IF StrictEq(t2.players[sbId].chips, 0)
                  THEN [t2 EXCEPT !.players[sbId].allIn = TRUE] ELSE t2
        IN  IF StrictEq(t3.players[bbId].chips, 0)
            THEN [t3 EXCEPT !.players[bbId].allIn = TRUE] ELSE t3

\* Table._postBlinds: both amounts are computed first, then the small blind
\* is taken, then the big blind (the two posters are the same record when one
\* player-id holds both seats)
PostBlinds(t) ==
  LET sbId == t.seats[GetSmallBlindSeat(t)]
      bbId == t.seats[GetBigBlindSeat(t)]
  IN  IF ~HasPlayer(t, sbId) \/ ~HasPlayer(t, bbId) THEN Throw(t, TypeError)
      ELSE
        LET sbAmount == MathMin(Chips(smallBlind), t.players[sbId].chips)
            bbAmount == MathMin(Chips(bigBlind), t.players[bbId].chips)
            t1 == [t EXCEPT !.players[sbId].chips = Sub(@, sbAmount),
                            !.players[sbId].currentBet = sbAmount,
                            !.players[sbId].totalBetThisHand = sbAmount,
                            !.pot = Add(@, sbAmount)]
            t2 == [t1 EXCEPT !.players[bbId].chips = Sub(@, bbAmount),
                             !.players[bbId].currentBet = bbAmount,
                             !.players[bbId].totalBetThisHand = bbAmount,
                             !.pot = Add(@, bbAmount)]
            t3 == IF StrictEq(t2.players[sbId].chips, 0)
                  THEN [t2 EXCEPT !.players[sbId].allIn = TRUE] ELSE t2
        IN  IF StrictEq(t3.players[bbId].chips, 0)
            THEN [t3 EXCEPT !.players[bbId].allIn = TRUE] ELSE t3

\* deal() n - 1 times: one card fewer than asked for
RECURSIVE DealCardsButOne(_, _)
DealCardsButOne(r, n) ==
  IF n <= 1 \/ r.t.err # Ok THEN r
  ELSE IF DeckEmpty(r.t.deck) THEN [r EXCEPT !.t = Throw(r.t, EmptyDeck)]
  ELSE DealCardsButOne([t |-> [r.t EXCEPT !.deck = DeckAfterDeal(r.t.deck)],
                        cards |-> Append(r.cards, DealtCard(r.t.deck))], n - 1)

\* this.deck.deal() n times, appending the cards to `into'; EmptyDeck when
\* the deck runs out
RECURSIVE DealCards(_, _)
DealCards(r, n) ==
  IF n = 0 \/ r.t.err # Ok THEN r
  ELSE IF DeckEmpty(r.t.deck) THEN [r EXCEPT !.t = Throw(r.t, EmptyDeck)]
  ELSE DealCards([t |-> [r.t EXCEPT !.deck = DeckAfterDeal(r.t.deck)],
                  cards |-> Append(r.cards, DealtCard(r.t.deck))], n - 1)

\* Table._dealHoleCards: seat by seat, two cards to every seated player with chips
RECURSIVE DealHoleCardsFrom(_, _)
DealHoleCardsFrom(t, seat) ==
  IF seat >= maxPlayers \/ t.err # Ok THEN t
  ELSE IF t.seats[seat] = NoPlayer THEN DealHoleCardsFrom(t, seat + 1)
  ELSE IF ~HasPlayer(t, t.seats[seat]) THEN Throw(t, TypeError)
  ELSE IF Gt(t.players[t.seats[seat]].chips, 0)
    THEN LET r == DealCards([t |-> t, cards |-> <<>>], 2)
         IN  IF r.t.err # Ok THEN r.t
             ELSE DealHoleCardsFrom(
                    [r.t EXCEPT !.players[t.seats[seat]].holeCards = r.cards], seat + 1)
  ELSE DealHoleCardsFrom(t, seat + 1)

DealHoleCards(t) == DealHoleCardsFrom(t, 0)

\* Table._setNextPlayer: the first seat after afterSeat whose player is
\* neither folded nor all-in, or null after maxPlayers seats
RECURSIVE SetNextPlayerFrom(_, _, _)
SetNextPlayerFrom(t, seat, checked) ==
  IF checked >= maxPlayers THEN [t EXCEPT !.currentPlayerSeat = NullSeat]
  ELSE IF t.seats[seat] = NoPlayer
    THEN SetNextPlayerFrom(t, (seat + 1) % maxPlayers, checked + 1)
  ELSE IF ~HasPlayer(t, t.seats[seat]) THEN Throw(t, TypeError)
  ELSE IF ~t.players[t.seats[seat]].folded /\ ~t.players[t.seats[seat]].allIn
    THEN [t EXCEPT !.currentPlayerSeat = seat]
  ELSE SetNextPlayerFrom(t, (seat + 1) % maxPlayers, checked + 1)

\* the next occupied seat after afterSeat, whoever sits there
SetNextOccupied(t, afterSeat) ==
  LET offsets == {k \in 1..maxPlayers : t.seats[(afterSeat + k) % maxPlayers] # NoPlayer}
  IN  IF offsets = {} THEN [t EXCEPT !.currentPlayerSeat = NullSeat]
      ELSE [t EXCEPT !.currentPlayerSeat =
              (afterSeat + (CHOOSE k \in offsets : \A j \in offsets : k <= j)) % maxPlayers]

SetNextPlayer(t, afterSeat) == SetNextPlayerFrom(t, (afterSeat + 1) % maxPlayers, 0)

\* Table.startHand
startHand(t, seed) ==
  IF Cardinality(GetActivePlayers(t)) < 2 THEN Throw(t, NotEnoughPlayers)
  ELSE
    LET deck == Decks[seed]
        t1 == [t EXCEPT !.handNumber = @ + 1,
                        !.deck = deck,
                        !.deckCommitment = deck.commitment,
                        !.communityCards = <<>>,
                        !.pot = 0,
                        !.phase = PREFLOP,
                        !.currentBet = Chips(bigBlind),
                        !.minRaise = Chips(bigBlind),
                        !.players = [id \in DOMAIN t.players |-> ResetPlayer(t.players[id])],
                        !.err = Ok]
        t2 == PostBlinds(MoveDealer(t1))
        t3 == IF t2.err # Ok THEN t2 ELSE DealHoleCards(t2)
    IN  IF t3.err # Ok THEN t3 ELSE SetNextPlayer(t3, GetBigBlindSeat(t3))

\* _awardPot without the rake: the whole pot goes to the winner
AwardWholePot(t, winner) ==
  [t EXCEPT !.players[winner].chips = Add(@, t.pot),
            !.phase = SHOWDOWN]

\* Table._awardPot: the uncontested win
AwardPot(t, winner) ==
  LET rake == MathMin(TimesRake(t.pot), Chips(rakeMax))
      winAmount == Sub(t.pot, rake)
  IN  [t EXCEPT !.players[winner].chips = Add(@, winAmount),
                !.phase = SHOWDOWN]

\* The seven cards a showdown can evaluate: from the deck of a seed, the j-th
\* pair of hole cards dealt out of k pairs, then the five cards dealt after
\* the hole cards.  EvaluatedHands holds evaluateHand of each of them, so
\* that a showdown looks the hand up instead of evaluating it again.
HoleCardsDealt(cards, j) ==
  <<cards[Len(cards) - 2 * (j - 1)], cards[Len(cards) - 2 * (j - 1) - 1]>>

BoardDealt(cards, k) == [i \in 1 .. 5 |-> cards[Len(cards) - 2 * k - (i - 1)]]

ShowdownCards ==
  {HoleCardsDealt(Decks[seed].cards, j) \o BoardDealt(Decks[seed].cards, k) :
     seed \in Seeds, j \in 1 .. maxPlayers, k \in 1 .. maxPlayers}

EvaluatedHands == [cards \in ShowdownCards |-> EvaluateHand(cards)]

\* evaluateHand([...player.holeCards, ...this.communityCards])
ShowdownHand(t, id) ==
  LET allCards == t.players[id].holeCards \o t.communityCards
  IN  IF allCards \in ShowdownCards THEN EvaluatedHands[allCards]
      ELSE EvaluateHand(allCards)

\* playersInHand as an array: the players of the hand seat by seat (the
\* order of the players Map, which is the order of joining, is not kept)
RECURSIVE PlayersBySeat(_, _)
PlayersBySeat(t, ids) ==
  IF ids = {} THEN <<>>
  ELSE LET first == CHOOSE q \in ids : \A r \in ids : IndexOf(t.seats, q) <= IndexOf(t.seats, r)
       IN  <<first>> \o PlayersBySeat(t, ids \ {first})

\* results.sort((a, b) => compareHands(b.hand, a.hand)), one element at a
\* time: `id' goes before the first element whose hand it beats
RECURSIVE InsertResult(_, _, _)
InsertResult(sorted, id, hands) ==
  IF sorted = <<>> THEN <<id>>
  ELSE IF Le(CompareHands(hands[id], hands[Head(sorted)]), 0)
    THEN <<Head(sorted)>> \o InsertResult(Tail(sorted), id, hands)
  ELSE <<id>> \o sorted

RECURSIVE SortResults(_, _)
SortResults(results, hands) ==
  IF results = <<>> THEN <<>>
  ELSE InsertResult(SortResults(SubSeq(results, 1, Len(results) - 1), hands),
                    results[Len(results)], hands)

\* the winners' loop that stops at once: results[0] wins alone
NoLeadingRun(results, hands, i) == {}

\* winners = [results[0]], then every next result while its hand compares
\* equal to results[0]
RECURSIVE LeadingRun(_, _, _)
LeadingRun(results, hands, i) ==
  IF i > Len(results) THEN {}
  ELSE IF StrictEq(CompareHands(hands[results[i]], hands[results[1]]), 0)
    THEN {results[i]} \cup LeadingRun(results, hands, i + 1)
  ELSE {}

\* Table._showdown: the winners among the players of the hand
Winners(t, inHand) ==
  LET hands == [id \in inHand |-> ShowdownHand(t, id)]
      results == SortResults(PlayersBySeat(t, inHand), hands)
  IN  {results[1]} \cup LeadingRun(results, hands, 2)

\* Table._showdown
Showdown(t) ==
  LET t1 == [t EXCEPT !.phase = SHOWDOWN]
      inHand == GetPlayersInHand(t1)
  IN  IF inHand = {} THEN Throw(t1, TypeError)
      ELSE
        LET winners == Winners(t1, inHand)
            rake == MathMin(TimesRake(t1.pot), Chips(rakeMax))
            potAfterRake == Sub(t1.pot, rake)
            winAmount == MathFloor(DivideBy(potAfterRake, Cardinality(winners)))
        IN  [t1 EXCEPT !.players = [id \in DOMAIN t1.players |->
                                      IF id \in winners
                                      THEN [t1.players[id] EXCEPT !.chips = Add(@, winAmount)]
                                      ELSE t1.players[id]],
                       !.deck = RevealSalt(t1.deck)]

\* Table._isBettingComplete
IsBettingComplete(t) ==
  \A id \in GetPlayersInHand(t) :
    LET player == t.players[id]
    IN  /\ ~(~player.allIn /\ Lt(player.currentBet, t.currentBet))
        /\ ~(/\ ~player.allIn
             /\ player.lastAction = NoAction
             /\ t.phase = PREFLOP
             /\ t.seats[GetBigBlindSeat(t)] = id
             /\ StrictEq(player.currentBet, Chips(bigBlind)))

\* Table._advancePhase
RECURSIVE AdvancePhase(_)
AdvancePhase(t) ==
  LET t1 == [t EXCEPT !.players = [id \in DOMAIN t.players |->
                                     [t.players[id] EXCEPT !.currentBet = 0,
                                                           !.lastAction = NoAction]],
                      !.currentBet = 0,
                      !.minRaise = Chips(bigBlind)]
  IN  IF t1.phase = RIVER THEN Showdown(t1)
      ELSE
        LET r == IF t1.phase = PREFLOP
                 THEN DealCards([t |-> [t1 EXCEPT !.phase = FLOP], cards |-> <<>>], 3)
                 ELSE IF t1.phase = FLOP
                 THEN DealCards([t |-> [t1 EXCEPT !.phase = TURN], cards |-> t1.communityCards], 1)
                 ELSE DealCards([t |-> [t1 EXCEPT !.phase = RIVER], cards |-> t1.communityCards], 1)
        IN  IF r.t.err # Ok THEN r.t
            ELSE
              LET t2 == SetNextPlayer([r.t EXCEPT !.communityCards = r.cards], t1.dealerSeat)
                  canAct == {id \in GetPlayersInHand(t2) : ~t2.players[id].allIn}
              IN  IF t2.err # Ok THEN t2
                  ELSE IF Cardinality(canAct) <= 1 THEN AdvancePhase(t2)
                  ELSE t2

\* Table._advanceGame
AdvanceGame(t) ==
  LET inHand == GetPlayersInHand(t)
  IN  IF Cardinality(inHand) = 1 THEN AwardPot(t, CHOOSE id \in inHand : TRUE)
      ELSE IF IsBettingComplete(t) THEN AdvancePhase(t)
      ELSE SetNextPlayer(t, t.currentPlayerSeat)

\* Table._validateAction: the error it throws, or Ok
ValidateAction(t, playerId) ==
  IF t.phase = WAITING \/ t.phase = SHOWDOWN THEN NoActiveHand
  ELSE IF IndexOf(t.seats, playerId) # t.currentPlayerSeat THEN OutOfTurn
  ELSE Ok

\* Table.fold, lines 174-176: the table as fold hands it to _advanceGame
Folds(t, playerId) ==
  [t EXCEPT !.players[playerId].folded = TRUE,
            !.players[playerId].lastAction = "fold",
            !.err = Ok]

\* Table.fold
fold(t, playerId) ==
  IF ValidateAction(t, playerId) # Ok THEN Throw(t, ValidateAction(t, playerId))
  ELSE IF ~HasPlayer(t, playerId) THEN Throw(t, TypeError)
  ELSE AdvanceGame(Folds(t, playerId))

\* Table.check, line 187: the table as check hands it to _advanceGame
Checks(t, playerId) ==
  [t EXCEPT !.players[playerId].lastAction = "check",
            !.err = Ok]

\* Table.check
check(t, playerId) ==
  IF ValidateAction(t, playerId) # Ok THEN Throw(t, ValidateAction(t, playerId))
  ELSE IF ~HasPlayer(t, playerId) THEN Throw(t, TypeError)
  ELSE IF Lt(t.players[playerId].currentBet, t.currentBet) THEN Throw(t, CannotCheck)
  ELSE AdvanceGame(Checks(t, playerId))

\* Table.call, lines 201-211: the table as call hands it to _advanceGame
Calls(t, playerId) ==
  LET player == t.players[playerId]
      toCall == Sub(t.currentBet, player.currentBet)
      actualCall == MathMin(toCall, player.chips)
      chips == Sub(player.chips, actualCall)
  IN  [t EXCEPT !.players[playerId] =
                  [player EXCEPT !.chips = chips,
                                 !.currentBet = Add(@, actualCall),
                                 !.totalBetThisHand = Add(@, actualCall),
                                 !.allIn = IF StrictEq(chips, 0) THEN TRUE ELSE @,
                                 !.lastAction = "call"],
                !.pot = Add(@, actualCall),
                !.err = Ok]

\* Table.call
call(t, playerId) ==
  IF ValidateAction(t, playerId) # Ok THEN Throw(t, ValidateAction(t, playerId))
  ELSE IF ~HasPlayer(t, playerId) THEN Throw(t, TypeError)
  ELSE
    LET toCall == Sub(t.currentBet, t.players[playerId].currentBet)
    IN  IF Le(toCall, 0) THEN Throw(t, NothingToCall)
        ELSE AdvanceGame(Calls(t, playerId))

\* raise that leaves the minimum raise as it was
RaisesKeepingMinRaise(t, playerId, amount) ==
  LET player == t.players[playerId]
      chips == Sub(player.chips, amount)
      bet == Add(player.currentBet, amount)
  IN  [t EXCEPT !.players[playerId] =
                  [player EXCEPT !.chips = chips,
                                 !.currentBet = bet,
                                 !.totalBetThisHand = Add(@, amount),
                                 !.allIn = IF StrictEq(chips, 0) THEN TRUE ELSE @,
                                 !.lastAction = "raise"],
                !.pot = Add(@, amount),
                !.currentBet = bet,
                !.err = Ok]

\* Table.raise, lines 230-242: the table as raise hands it to _advanceGame
Raises(t, playerId, amount) ==
  LET player == t.players[playerId]
      toCall == Sub(t.currentBet, player.currentBet)
      raiseAmount == Sub(amount, toCall)
      chips == Sub(player.chips, amount)
      bet == Add(player.currentBet, amount)
  IN  [t EXCEPT !.players[playerId] =
                  [player EXCEPT !.chips = chips,
                                 !.currentBet = bet,
                                 !.totalBetThisHand = Add(@, amount),
                                 !.allIn = IF StrictEq(chips, 0) THEN TRUE ELSE @,
                                 !.lastAction = "raise"],
                !.pot = Add(@, amount),
                !.currentBet = bet,
                !.minRaise = MathMax(@, raiseAmount),
                !.err = Ok]

\* Table.raise
raise(t, playerId, amount) ==
  IF ValidateAction(t, playerId) # Ok THEN Throw(t, ValidateAction(t, playerId))
  ELSE IF ~HasPlayer(t, playerId) THEN Throw(t, TypeError)
  ELSE
    LET player == t.players[playerId]
        toCall == Sub(t.currentBet, player.currentBet)
        raiseAmount == Sub(amount, toCall)
    IN  IF Lt(raiseAmount, t.minRaise) /\ Lt(amount, player.chips) THEN Throw(t, BelowMinRaise)
        ELSE IF Gt(amount, player.chips) THEN Throw(t, InsufficientChips)
        ELSE AdvanceGame(Raises(t, playerId, amount))

\* Table.allIn
allIn(t, playerId) ==
  IF ~HasPlayer(t, playerId) THEN Throw(t, TypeError)
  ELSE raise(t, playerId, t.players[playerId].chips)

\* ------------------------------------------------------------------- state
VARIABLES seats, players, deck, communityCards, pot, phase, dealerSeat,
          currentPlayerSeat, currentBet, minRaise, handNumber, deckCommitment,
          now, joins, leaves,
          dealt, deckReveal, hands,
          solanaBalances, baseBalances, processedTxs, requests

tableVars == <<seats, players, deck, communityCards, pot, phase, dealerSeat,
               currentPlayerSeat, currentBet, minRaise, handNumber, deckCommitment>>

vars == <<seats, players, deck, communityCards, pot, phase, dealerSeat,
          currentPlayerSeat, currentBet, minRaise, handNumber, deckCommitment,
          now, joins, leaves, dealt, deckReveal, hands,
          solanaBalances, baseBalances, processedTxs, requests>>

\* what a caller of the library on its own holds: of a SecureDeck (DeckSpec),
\* the cards deal() returned, in the order of the calls, and the value
\* revealSalt() returned; of the evaluator (HandSpec), the hands evaluateHand
\* returned, in the order of the calls
callerVars == <<dealt, deckReveal, hands>>

\* the server's off-table state: tokenManager.playerBalances (Solana) and
\* baseTokenManager.playerBalances (Base), the balance of each registered
\* agent; baseTokenManager.processedTxs; and the asynchronous calls of
\* verifyDeposit and withdraw, in the order they were made, each with the
\* await it is suspended at or the way it ended
serverVars == <<solanaBalances, baseBalances, processedTxs, requests>>

\* the table as one value, as a call finds it (err is the outcome of the call:
\* Ok, or the error it throws)
Table ==
  [seats |-> seats, players |-> players, deck |-> deck,
   communityCards |-> communityCards, pot |-> pot, phase |-> phase,
   dealerSeat |-> dealerSeat, currentPlayerSeat |-> currentPlayerSeat,
   currentBet |-> currentBet, minRaise |-> minRaise, handNumber |-> handNumber,
   deckCommitment |-> deckCommitment, err |-> Ok]

\* the table after a call that returned, or threw, with the table as `t'
Becomes(t) ==
  /\ seats' = t.seats
  /\ players' = t.players
  /\ deck' = t.deck
  /\ communityCards' = t.communityCards
  /\ pot' = t.pot
  /\ phase' = t.phase
  /\ dealerSeat' = t.dealerSeat
  /\ currentPlayerSeat' = t.currentPlayerSeat
  /\ currentBet' = t.currentBet
  /\ minRaise' = t.minRaise
  /\ handNumber' = t.handNumber
  /\ deckCommitment' = t.deckCommitment

\* ------------------------------------------------------------------ inputs
Agents == {"a", "b", "c"}

AgentRank(m) == IF m = "a" THEN 0 ELSE IF m = "b" THEN 1 ELSE 2

Times == 0 .. MaxTime

PlayerIds == {PlayerId(m, time) : m \in Agents, time \in Times}

BuyIns == {Chips(minBuyIn - 1), Chips(minBuyIn), Chips(maxBuyIn + 1)}

PreferredSeats == {NullSeat, 0}

RaiseAmounts == {Chips(38), NaN}

\* the server after construction, every agent registered (POST /api/auth/verify
\* and /api/wallet/base/register) and nothing deposited
IdleServer ==
  /\ solanaBalances = [m \in Agents |-> 0]
  /\ baseBalances = [m \in Agents |-> 0]
  /\ processedTxs = {}
  /\ requests = <<>>

\* --------------------------------------------------------------- behaviour
Init ==
  /\ seats = NewTable.seats
  /\ players = NewTable.players
  /\ deck = NewTable.deck
  /\ communityCards = NewTable.communityCards
  /\ pot = NewTable.pot
  /\ phase = NewTable.phase
  /\ dealerSeat = NewTable.dealerSeat
  /\ currentPlayerSeat = NewTable.currentPlayerSeat
  /\ currentBet = NewTable.currentBet
  /\ minRaise = NewTable.minRaise
  /\ handNumber = NewTable.handNumber
  /\ deckCommitment = NewTable.deckCommitment
  /\ now = 0
  /\ joins = 0
  /\ leaves = 0
  /\ dealt = <<>>
  /\ deckReveal = NoReveal
  /\ hands = <<>>
  /\ IdleServer

\* the agents a caller seats: one already seated (a repeated join), or the
\* first agent not seated (the agents not seated are interchangeable)
JoiningAgents ==
  LET seated == {m \in Agents : \E s \in SeatIndexes, time \in Times :
                                  seats[s] = PlayerId(m, time)}
      first == {m \in Agents \ seated : \A q \in Agents \ seated : AgentRank(m) <= AgentRank(q)}
  IN  seated \cup first

\* a caller seats a player; Date.now() is the clock, which never goes back;
\* joins counts the players seated so far
AddPlayer ==
  \E m \in JoiningAgents, buyIn \in BuyIns, preferredSeat \in PreferredSeats, time \in Times :
    /\ time \in {now, now + 1}
    /\ \E t \in {addPlayer(Table, m, buyIn, preferredSeat, time)} :
         /\ t.err = Ok => joins < MaxJoins
         /\ Becomes(t)
         /\ joins' = IF t.err = Ok THEN joins + 1 ELSE joins
    /\ now' = time
    /\ UNCHANGED <<leaves, callerVars, serverVars>>

\* a caller removes a player; leaves counts the players removed so far
RemovePlayer ==
  \E id \in PlayerIds :
    /\ \E t \in {removePlayer(Table, id)} :
         /\ HasPlayer(Table, id) => leaves < MaxLeaves
         /\ Becomes(t)
         /\ leaves' = IF HasPlayer(Table, id) THEN leaves + 1 ELSE leaves
    /\ UNCHANGED <<now, joins, callerVars, serverVars>>

StartHand ==
  \E seed \in Seeds :
    /\ handNumber < MaxHands
    /\ \E t \in {startHand(Table, seed)} : Becomes(t)
    /\ UNCHANGED <<now, joins, leaves, callerVars, serverVars>>

Fold ==
  \E id \in PlayerIds :
    /\ \E t \in {fold(Table, id)} : Becomes(t)
    /\ UNCHANGED <<now, joins, leaves, callerVars, serverVars>>

Check ==
  \E id \in PlayerIds :
    /\ \E t \in {check(Table, id)} : Becomes(t)
    /\ UNCHANGED <<now, joins, leaves, callerVars, serverVars>>

Call ==
  \E id \in PlayerIds :
    /\ \E t \in {call(Table, id)} : Becomes(t)
    /\ UNCHANGED <<now, joins, leaves, callerVars, serverVars>>

Raise ==
  \E id \in PlayerIds, amount \in RaiseAmounts :
    /\ \E t \in {raise(Table, id, amount)} : Becomes(t)
    /\ UNCHANGED <<now, joins, leaves, callerVars, serverVars>>

AllIn ==
  \E id \in PlayerIds :
    /\ \E t \in {allIn(Table, id)} : Becomes(t)
    /\ UNCHANGED <<now, joins, leaves, callerVars, serverVars>>

Next ==
  \/ AddPlayer
  \/ RemovePlayer
  \/ StartHand
  \/ Fold
  \/ Check
  \/ Call
  \/ Raise
  \/ AllIn

Spec == Init /\ [][Next]_vars

\* ------------------------------------------------------ what the calls do
\* sum of player.chips over the players of a table
RECURSIVE SumChips(_, _)
SumChips(ps, ids) ==
  IF ids = {} THEN 0
  ELSE LET id == CHOOSE x \in ids : TRUE
       IN  Add(ps[id].chips, SumChips(ps, ids \ {id}))

\* sum(player.chips) + pot
Total(t) == Add(t.pot, SumChips(t.players, DOMAIN t.players))

\* sum of player.totalBetThisHand over the players `ids'
RECURSIVE SumTotalBet(_, _)
SumTotalBet(ps, ids) ==
  IF ids = {} THEN 0
  ELSE LET id == CHOOSE x \in ids : TRUE
       IN  Add(ps[id].totalBetThisHand, SumTotalBet(ps, ids \ {id}))

\* the table after each fold, check, call, raise or allIn a caller can make
\* on the table as it is
ActionOutcomes ==
  UNION {{fold(Table, id), check(Table, id), call(Table, id), allIn(Table, id)}
           \cup {raise(Table, id, amount) : amount \in RaiseAmounts} : id \in PlayerIds}

\* C1: every successful fold, check, call, raise or allIn after which the
\* phase is still PREFLOP, FLOP, TURN or RIVER leaves sum(chips) + pot as it
\* was before the call.
C1_ActionsConserveChips ==
  \A t \in ActionOutcomes :
    (t.err = Ok /\ t.phase \in ActivePhases) => StrictEq(Total(t), Total(Table))

\* min(pot * rake, rakeMax) of a table
Rake(t) == MathMin(TimesRake(t.pot), Chips(rakeMax))

\* what an award credited to the chip stacks: the chips after the call less
\* the chips before the award, which are what the table held before the call
\* less the pot at the award (the pot is not reset by an award)
Credited(t) ==
  Sub(SumChips(t.players, DOMAIN t.players), Sub(Total(Table), t.pot))

\* C2: at every award step (showdown or uncontested win) the amount credited
\* to the winners' stacks plus the rake equals the pot at the award.
C2_AwardConservesPot ==
  \A t \in ActionOutcomes :
    (t.err = Ok /\ t.phase = SHOWDOWN /\ ~IsNaN(t.pot))
      => StrictEq(Add(Credited(t), Rake(t)), t.pot)

\* the table after each addPlayer or startHand a caller can make on the
\* table as it is
SeatingOutcomes ==
  {addPlayer(Table, m, buyIn, preferredSeat, time) :
     m \in Agents, buyIn \in BuyIns, preferredSeat \in PreferredSeats, time \in Times}
    \cup {startHand(Table, seed) : seed \in Seeds}

\* C3: a failing addPlayer, startHand, fold, check, call, raise or allIn
\* leaves the whole table exactly as it was before the call.
C3_FailureLeavesTableUnchanged ==
  \A t \in SeatingOutcomes \cup ActionOutcomes :
    t.err # Ok => t = Throw(Table, t.err)

\* the table after each removePlayer a caller can make on the table as it is
RemovalOutcomes == {removePlayer(Table, id) : id \in PlayerIds}

\* C4: every failure of addPlayer, removePlayer, startHand, fold, check,
\* call, raise or allIn is one of the enumerated kinds.
C4_FailuresAreEnumerated ==
  \A t \in SeatingOutcomes \cup RemovalOutcomes \cup ActionOutcomes :
    t.err \in EnumeratedErrors \cup {Ok}

\* C5: a successful call, raise or allIn that stays in the betting round
\* (the phase is the one before the call) does not lower currentBet.
C5_CurrentBetNeverDecreases ==
  \A t \in ActionOutcomes :
    (t.err = Ok /\ t.phase = phase) => ~Lt(t.currentBet, currentBet)

\* the outcome of each of the five player actions by `id' on the table as it is
ActionsBy(id) ==
  {fold(Table, id), check(Table, id), call(Table, id), allIn(Table, id)}
    \cup {raise(Table, id, amount) : amount \in RaiseAmounts}

\* C6: in WAITING or SHOWDOWN every fold, check, call, raise or allIn fails
\* with NoActiveHand; in an active phase a call by any id other than the
\* occupant of currentPlayerSeat fails with OutOfTurn.
C6_ActionsNeedActiveHandAndTurn ==
  \A id \in PlayerIds : \A t \in ActionsBy(id) :
    /\ phase \in {WAITING, SHOWDOWN} => t.err = NoActiveHand
    /\ (phase \in ActivePhases
        /\ (currentPlayerSeat = NullSeat \/ seats[currentPlayerSeat] # id))
         => t.err = OutOfTurn

\* C7: while nothing has been awarded from the hand's pot (the phase is not
\* SHOWDOWN) the pot equals the sum of totalBetThisHand over the players who
\* have not folded.
C7_PotIsSumOfLiveBets ==
  (phase # SHOWDOWN /\ ~IsNaN(pot))
    => StrictEq(pot, SumTotalBet(players, {id \in DOMAIN players : ~players[id].folded}))

\* a seated player who is neither folded nor all-in
CanAct(s) ==
  /\ seats[s] # NoPlayer
  /\ HasPlayer(Table, seats[s])
  /\ ~players[seats[s]].folded
  /\ ~players[seats[s]].allIn

\* C8: in PREFLOP, FLOP, TURN and RIVER currentPlayerSeat is the seat of a
\* seated player who is neither folded nor all-in, or it is null, and it is
\* null only if no seated player can act.
C8_CurrentSeatIsLive ==
  phase \in ActivePhases =>
    IF currentPlayerSeat = NullSeat THEN \A s \in SeatIndexes : ~CanAct(s)
    ELSE currentPlayerSeat \in SeatIndexes /\ CanAct(currentPlayerSeat)

\* C9: every chip stack is a non-negative whole number of chips (the raise
\* amounts being numbers).
C9_ChipsAreNaturalNumbers ==
  \A id \in DOMAIN players :
    ~IsNaN(players[id].chips) =>
      (players[id].chips >= 0 /\ players[id].chips % Unit = 0)

\* the place of a phase in WAITING, PREFLOP, FLOP, TURN, RIVER, SHOWDOWN
PhaseOrder == <<WAITING, PREFLOP, FLOP, TURN, RIVER, SHOWDOWN>>

PhaseRank(p) == CHOOSE i \in 1 .. Len(PhaseOrder) : PhaseOrder[i] = p

\* C10: within a hand the phase never moves backward, and a hand starts
\* (the hand counter moves and the phase becomes PREFLOP) only from WAITING
\* or SHOWDOWN.
C10_PhaseOrder ==
  [][/\ handNumber' = handNumber => PhaseRank(phase') >= PhaseRank(phase)
     /\ (handNumber' # handNumber /\ phase' = PREFLOP) => phase \in {WAITING, SHOWDOWN}]_vars

\* what the caller `id' put into the pot by the call that made the table `t'
BetBy(t, id) ==
  IF HasPlayer(Table, id) /\ HasPlayer(t, id)
  THEN Sub(t.players[id].totalBetThisHand, players[id].totalBetThisHand)
  ELSE 0

\* the chips of `q' after the call by `id' that made `t', before any award
ChipsBeforeAward(t, id, q) ==
  IF q = id THEN Sub(players[q].chips, BetBy(t, id)) ELSE players[q].chips

NonFolded == {q \in DOMAIN players : ~players[q].folded}

\* C12: no call returns with the table in PREFLOP, FLOP, TURN or RIVER and
\* two or more non-folded players all of whom are all-in: such a hand is run
\* out to the showdown inside the call that made the last of them all-in.
C12_AllInHandsAreRunOut ==
  ~(/\ phase \in ActivePhases
    /\ Cardinality(NonFolded) >= 2
    /\ \A q \in NonFolded : players[q].allIn)

\* the players of the hand whose evaluated hand no other player's hand beats
BestHands(t) ==
  LET inHand == GetPlayersInHand(t)
  IN  {w \in inHand :
         \A q \in inHand : Le(CompareHands(ShowdownHand(t, q), ShowdownHand(t, w)), 0)}

\* C13: a successful action that ends in a showdown (two or more players in
\* the hand) credits floor((pot - min(pot * rake, rakeMax)) / winners) to
\* each of the players whose hand compares equal to the best hand, to all of
\* them and to nobody else.
C13_ShowdownPaysBestHands ==
  \A id \in PlayerIds : \A t \in ActionsBy(id) :
    (t.err = Ok /\ t.phase = SHOWDOWN /\ Cardinality(GetPlayersInHand(t)) >= 2) =>
      /\ DOMAIN t.players = DOMAIN players
      /\ \A q \in DOMAIN t.players :
           t.players[q].chips =
             IF q \in BestHands(t)
             THEN Add(ChipsBeforeAward(t, id, q),
                      MathFloor(DivideBy(Sub(t.pot, Rake(t)), Cardinality(BestHands(t)))))
             ELSE ChipsBeforeAward(t, id, q)

\* a showdown between two tied hands has split a pot of 4: each of the two
\* holds 38 + floor(3.8 / 2) chips
C13_TiedShowdownSplit ==
  /\ phase = SHOWDOWN
  /\ deck.revealed
  /\ Len(communityCards) = 5
  /\ pot = Chips(4)
  /\ Cardinality(GetPlayersInHand(Table)) = 2
  /\ BestHands(Table) = GetPlayersInHand(Table)
  /\ \A q \in GetPlayersInHand(Table) : players[q].chips = Chips(39)

\* the outcome of each of the five player actions by `id' on a table `t'
ActionsOn(t, id) ==
  {fold(t, id), check(t, id), call(t, id), allIn(t, id)}
    \cup {raise(t, id, amount) : amount \in RaiseAmounts}

\* `p' has acted in this round and its bet matches the table's currentBet
HasMatched(p) ==
  /\ HasPlayer(Table, p)
  /\ ~players[p].folded
  /\ ~players[p].allIn
  /\ players[p].lastAction # NoAction
  /\ StrictEq(players[p].currentBet, currentBet)

\* the table `t' is the table after an all-in that raised currentBet by less
\* than the minimum raise and left the betting round open
IsShortAllInRaise(t) ==
  /\ t.err = Ok
  /\ t.phase = phase
  /\ Gt(t.currentBet, currentBet)
  /\ Lt(Sub(t.currentBet, currentBet), minRaise)

\* the tables on which `p' may be the next to act after the table `t': `t'
\* itself, or `t' after one more player has called or folded
BeforeTurnOf(t, p, id) ==
  {t} \cup {x \in UNION {{fold(t, q), call(t, q)} : q \in PlayerIds \ {p, id}} :
              x.err = Ok /\ x.phase = t.phase /\ x.currentBet = t.currentBet}

\* the call by `p' that made `r' out of `t' put more into the pot than `p'
\* owed: it was a raise
RaisedBy(r, t, p) ==
  /\ r.err = Ok
  /\ HasPlayer(r, p)
  /\ Gt(Sub(r.players[p].totalBetThisHand, t.players[p].totalBetThisHand),
        Sub(t.currentBet, t.players[p].currentBet))

\* C14: after a short all-in raise, a player who had already acted and
\* matched the bet before it cannot raise again in that round: neither
\* raise nor allIn by that player puts in more than the call.
C14_ShortAllInDoesNotReopen ==
  \A id \in PlayerIds : \A p \in PlayerIds \ {id} :
    (HasMatched(p) /\ IsShortAllInRaise(allIn(Table, id))) =>
      \A t \in BeforeTurnOf(allIn(Table, id), p, id) :
        \A r \in {allIn(t, p)} \cup {raise(t, p, amount) : amount \in RaiseAmounts} :
          ~RaisedBy(r, t, p)

\* the accepted betting actions of the current state, each as the pair of the
\* table the action produces (what it hands to _advanceGame) and the table
\* the call leaves
BettingActions ==
  LET valid == {id \in PlayerIds : ValidateAction(Table, id) = Ok /\ HasPlayer(Table, id)}
      toCall(id) == Sub(Table.currentBet, Table.players[id].currentBet)
  IN  {<<Folds(Table, id), fold(Table, id)>> : id \in valid}
        \cup {<<Checks(Table, id), check(Table, id)>> :
                 id \in {i \in valid : ~Lt(Table.players[i].currentBet, Table.currentBet)}}
        \cup {<<Calls(Table, id), call(Table, id)>> :
                 id \in {i \in valid : ~Le(toCall(i), 0)}}
        \cup {<<Raises(Table, x[1], x[2]), raise(Table, x[1], x[2])>> :
                 x \in {y \in valid \X (RaiseAmounts \cup {Table.players[i].chips : i \in valid}) :
                          /\ ~(Lt(Sub(y[2], toCall(y[1])), Table.minRaise)
                                 /\ Lt(y[2], Table.players[y[1]].chips))
                          /\ ~Gt(y[2], Table.players[y[1]].chips)}}

\* the betting round is closed and the phase advanced (the uncontested win
\* of the last player in the hand is the end of the hand, not of a round)
RoundClosed(s, r) ==
  /\ Cardinality(GetPlayersInHand(s)) # 1
  /\ r.phase # s.phase

\* the big blind has had its option: it has acted in this round, or it
\* cannot act (folded or all-in)
BigBlindHadOption(s) ==
  LET id == s.seats[GetBigBlindSeat(s)]
  IN  HasPlayer(s, id) =>
        \/ s.players[id].lastAction # NoAction
        \/ s.players[id].folded
        \/ s.players[id].allIn

\* every non-folded player who is not all-in has matched the table's bet,
\* and preflop the big blind has had its option
BetsSettled(s) ==
  /\ \A id \in DOMAIN s.players :
        (~s.players[id].folded /\ ~s.players[id].allIn) =>
          StrictEq(s.players[id].currentBet, s.currentBet)
  /\ s.phase = PREFLOP => BigBlindHadOption(s)

\* C15: a betting action closes the round (advances the phase) only when the
\* table it produces has every non-folded, non-all-in player's bet equal to
\* currentBet and, preflop, the big blind has had its option; and when the
\* table it produces is such, with two or more non-folded players, the phase
\* advances within the action.
C15_RoundClosesExactlyWhenSettled ==
  \A x \in BettingActions :
    /\ RoundClosed(x[1], x[2]) => BetsSettled(x[1])
    /\ (BetsSettled(x[1])
          /\ Cardinality({id \in DOMAIN x[1].players : ~x[1].players[id].folded}) >= 2)
         => x[2].phase # x[1].phase

\* the seated players with chips, as startHand finds them
SeatedWithChips(t) ==
  {id \in DOMAIN t.players :
     /\ \E s \in SeatIndexes : t.seats[s] = id
     /\ Gt(t.players[id].chips, 0)}

\* a startHand called in the current state that returns leaves two hole
\* cards with every seated player who had chips at the call
StartHandDealsTwo ==
  \A seed \in Seeds :
    startHand(Table, seed).err = Ok =>
      \A id \in SeatedWithChips(Table) :
        Len(startHand(Table, seed).players[id].holeCards) = 2

\* every player holds no hole cards or two
HoldsNoneOrTwo ==
  \A id \in DOMAIN players : Len(players[id].holeCards) \in {0, 2}

\* within a hand the hole cards of a player do not change
HoleCardsKept ==
  handNumber' = handNumber =>
    \A id \in DOMAIN players \cap DOMAIN players' :
      players'[id].holeCards = players[id].holeCards

\* C16: a successful startHand deals exactly two hole cards to every seated
\* player who had chips when it was called, a player whose blind took the
\* whole stack included; every player always holds 0 or 2 hole cards; and
\* the hole cards do not change until the next startHand.
C16_HoleCards ==
  /\ [](StartHandDealsTwo /\ HoldsNoneOrTwo)
  /\ [][HoleCardsKept]_vars

\* the outcomes of every call a caller can make in the current state
CallOutcomes == SeatingOutcomes \cup RemovalOutcomes \cup ActionOutcomes

\* C17: the salt of the current deck is revealed only after the hand has
\* concluded, and once: while the phase is PREFLOP, FLOP, TURN or RIVER the
\* deck is not revealed; a call that reveals it leaves the phase SHOWDOWN;
\* and on a revealed deck no call reaches the showdown again (only an
\* accepted fold, check, call, raise or allIn does).
C17_SaltRevealedAfterHandOnce ==
  /\ phase \in ActivePhases => ~deck.revealed
  /\ \A r \in CallOutcomes :
        (~deck.revealed /\ r.deck.revealed) =>
          (r.phase = SHOWDOWN /\ phase \in ActivePhases)
  /\ deck.revealed =>
        \A r \in ActionOutcomes : r.err # Ok /\ r.deck = deck /\ r.players = players

\* a river showdown has revealed the salt of the deck the table committed to
C17_SaltRevealedAtShowdown ==
  /\ phase = SHOWDOWN
  /\ deck.revealed
  /\ deckCommitment = deck.commitment
  /\ Len(communityCards) = 5
  /\ handNumber = 1

\* startHand replaces the deck of a hand that has concluded
DiscardsConcludedDeck ==
  /\ phase = SHOWDOWN
  /\ handNumber' = handNumber + 1

\* C18: when startHand discards the deck of a hand that has concluded, by
\* showdown or by an uncontested win, the salt of that deck has been revealed.
C18_ConcludedDeckIsRevealed ==
  [][DiscardsConcludedDeck => deck.revealed]_vars

\* ------------------------------------------------------ SecureDeck on its own
\* A caller constructs a SecureDeck, calls deal() and revealSalt() in any
\* order, and keeps what the calls return.  The table does not take part.
DeckSeeds == 0 .. (NumDeckSeeds - 1)

DeckInit ==
  /\ deck \in {NewSecureDeck(seed) : seed \in DeckSeeds}
  /\ seats = NewTable.seats
  /\ players = NewTable.players
  /\ communityCards = NewTable.communityCards
  /\ pot = NewTable.pot
  /\ phase = NewTable.phase
  /\ dealerSeat = NewTable.dealerSeat
  /\ currentPlayerSeat = NewTable.currentPlayerSeat
  /\ currentBet = NewTable.currentBet
  /\ minRaise = NewTable.minRaise
  /\ handNumber = NewTable.handNumber
  /\ deckCommitment = deck.commitment
  /\ now = 0
  /\ joins = 0
  /\ leaves = 0
  /\ dealt = <<>>
  /\ deckReveal = NoReveal
  /\ hands = <<>>
  /\ IdleServer

\* deal(): throws on the empty deck, else pops a card, which the caller keeps
Deal ==
  /\ ~DeckEmpty(deck)
  /\ deck' = DeckAfterDeal(deck)
  /\ dealt' = Append(dealt, DealtCard(deck))
  /\ UNCHANGED <<seats, players, communityCards, pot, phase, dealerSeat,
                 currentPlayerSeat, currentBet, minRaise, handNumber,
                 deckCommitment, now, joins, leaves, deckReveal, hands, serverVars>>

\* revealSalt(): the caller keeps the returned value
Reveal ==
  /\ deck' = RevealSalt(deck)
  /\ deckReveal' = SaltReveal(deck)
  /\ UNCHANGED <<seats, players, communityCards, pot, phase, dealerSeat,
                 currentPlayerSeat, currentBet, minRaise, handNumber,
                 deckCommitment, now, joins, leaves, dealt, hands, serverVars>>

DeckNext ==
  \/ Deal
  \/ Reveal

DeckSpec == DeckInit /\ [][DeckNext]_vars

\* revealSalt() has returned and deal() has not been called since: the cards
\* the caller was dealt and the remaining cards it was given are the deck
RevealedAfterDeals ==
  /\ deckReveal # NoReveal
  /\ Len(dealt) + Len(deckReveal.remainingCards) = NumSuits * NumRanks

Reverse(seq) == [i \in 1 .. Len(seq) |-> seq[Len(seq) + 1 - i]]

\* C19 as stated: after k deal() calls and revealSalt(), the dealt cards in
\* the order they were dealt followed by the returned remaining cards, hashed
\* with the revealed salt, give the commitment published at creation.
C19_DealtThenRemainingIsCommitted ==
  RevealedAfterDeals =>
    Sha256(CardStrings(dealt) \o deckReveal.remainingCards, deckReveal.salt)
      = deckCommitment

\* C19 amended: after k deal() calls and revealSalt(), the returned remaining
\* cards followed by the dealt cards in the reverse of the order they were
\* dealt, hashed with the revealed salt, give the commitment published at
\* creation; the returned commitment is that commitment.
C19_RemainingThenDealtReversedIsCommitted ==
  RevealedAfterDeals =>
    /\ Sha256(deckReveal.remainingCards \o Reverse(CardStrings(dealt)), deckReveal.salt)
         = deckCommitment
    /\ deckReveal.commitment = deckCommitment

\* the whole deck was dealt before the reveal
C19_RevealedAfterFullDeal ==
  /\ RevealedAfterDeals
  /\ Len(dealt) = NumSuits * NumRanks
  /\ deckReveal.remainingCards = <<>>
  /\ deck.revealed

\* the cards on the table: the hole cards of the players and the board
CardsOnTable ==
  UNION {{players[id].holeCards[i] : i \in DOMAIN players[id].holeCards} :
           id \in DOMAIN players}
    \cup {communityCards[i] : i \in DOMAIN communityCards}

\* the cards taken from the full ordering `cards' when `remaining' is left
TakenFrom(cards, remaining) ==
  {cards[i] : i \in (Len(remaining) + 1) .. Len(cards)}

\* the published commitment is the commitment of the deck of the hand: the
\* one a SecureDeck was constructed with (the hash of its full ordering and
\* salt), of which the deck holds the front part and from whose end every
\* card on the table was taken
CommittedDeckDealt ==
  handNumber > 0 =>
    /\ deckCommitment = deck.commitment
    /\ \E seed \in Seeds :
         LET cards == Decks[seed].cards
         IN  /\ deckCommitment = Decks[seed].commitment
             /\ deck.salt = Decks[seed].salt
             /\ Len(deck.cards) <= Len(cards)
             /\ deck.cards = SubSeq(cards, 1, Len(deck.cards))
             /\ CardsOnTable \subseteq TakenFrom(cards, deck.cards)

\* within a hand the commitment stays and the deck only loses cards at its end
CommitmentKept ==
  handNumber' = handNumber =>
    /\ deckCommitment' = deckCommitment
    /\ deck'.commitment = deck.commitment
    /\ deck'.salt = deck.salt
    /\ Len(deck'.cards) <= Len(deck.cards)
    /\ deck'.cards = SubSeq(deck.cards, 1, Len(deck'.cards))

\* C20: in every hand deckCommitment is the commitment of the deck from
\* which every hole card and community card of the hand is dealt, set when
\* no card of the hand has been dealt; until the next startHand it does not
\* change and the deck changes only by losing cards at its dealing end.
C20_CommitBeforeReveal ==
  /\ []CommittedDeckDealt
  /\ [][CommitmentKept]_vars

\* a second hand is on the flop: seven cards are off its committed deck
C20_SecondHandOnFlop ==
  /\ handNumber = 2
  /\ phase = FLOP
  /\ Len(communityCards) = 3
  /\ Len(deck.cards) = NumSuits * NumRanks - 7
  /\ deckCommitment = Decks[0].commitment

\* every rank-suit pair
CardUniverse == {Card(rank, suit) : rank \in 0 .. (NumRanks - 1), suit \in 0 .. (NumSuits - 1)}

\* the elements of a sequence are pairwise distinct
Distinct(seq) == \A i, j \in DOMAIN seq : i # j => seq[i] # seq[j]

Elements(seq) == {seq[i] : i \in DOMAIN seq}

\* deal() called n times on a deck by a holder of it, which keeps the cards
Dealing(d, n) == DealCards([t |-> [deck |-> d, err |-> Ok], cards |-> <<>>], n)

\* per seed: the new deck is the 52 cards, each once
NewDeckChecks ==
  [seed \in Seeds |->
     /\ Len(Decks[seed].cards) = NumSuits * NumRanks
     /\ Distinct(Decks[seed].cards)
     /\ Elements(Decks[seed].cards) = CardUniverse]

NewDeckIsUniverse == \A seed \in Seeds : NewDeckChecks[seed]

\* per seed: 52 deals from the new deck give the 52 cards, each once, and
\* empty the deck; one more deal throws EmptyDeck and leaves the deck as it is
FullDealChecks ==
  [seed \in Seeds |->
     LET all == Dealing(Decks[seed], NumSuits * NumRanks)
         more == DealCards(all, 1)
     IN  /\ all.t.err = Ok
         /\ Len(all.cards) = NumSuits * NumRanks
         /\ Distinct(all.cards)
         /\ Elements(all.cards) = CardUniverse
         /\ DeckEmpty(all.t.deck)
         /\ more.t.err = EmptyDeck
         /\ more.t.deck = all.t.deck
         /\ more.cards = all.cards]

FullDealIsUniverse == \A seed \in Seeds : FullDealChecks[seed]

\* a deal from the deck of the table takes exactly one card off it, the one
\* it returns
DealTakesOne ==
  ~DeckEmpty(deck) =>
    LET one == Dealing(deck, 1)
    IN  /\ one.t.err = Ok
        /\ Len(one.t.deck.cards) = Len(deck.cards) - 1
        /\ deck.cards = Append(one.t.deck.cards, one.cards[1])

\* the number of cards held as hole cards and on the board
RECURSIVE SumHoleCards(_)
SumHoleCards(ids) ==
  IF ids = {} THEN 0
  ELSE LET id == CHOOSE x \in ids : TRUE
       IN  Len(players[id].holeCards) + SumHoleCards(ids \ {id})

\* C21: a new deck holds the 52 rank-suit pairs, each once; each successful
\* deal() takes exactly one card, and 52 deals yield the 52 cards; a further
\* deal() fails with EmptyDeck and leaves the deck unchanged; and no card
\* appears twice among the hole cards and community cards of a hand.
C21_DeckIsAPermutationDealtOnce ==
  /\ NewDeckIsUniverse
  /\ FullDealIsUniverse
  /\ DealTakesOne
  /\ Cardinality(CardsOnTable) = SumHoleCards(DOMAIN players) + Len(communityCards)

\* three players hold two cards each and the board has five: eleven cards,
\* all different, are off the deck
C21_ElevenCardsOnTable ==
  /\ Len(communityCards) = 5
  /\ Cardinality({id \in DOMAIN players : Len(players[id].holeCards) = 2}) = 3
  /\ Cardinality(CardsOnTable) = 11
  /\ Len(deck.cards) = NumSuits * NumRanks - 11

\* ------------------------------------------------------ the evaluator on its own
\* A caller evaluates hands of five to seven cards and keeps the results; the
\* claims about compareHands are about every two or three of them.
CardsOf(ranks, suits) == [i \in DOMAIN ranks |-> Card(ranks[i], suits[i])]

OneSuit(suit) == [i \in 1 .. 5 |-> suit]

\* the card arrays evaluated: every category, with equal hands in different
\* suits, hands that differ in a late kicker only, both wheels, and a seven
\* card hand
SampleCards ==
  {CardsOf(<<12, 11, 10, 9, 8>>, OneSuit(0)),
   CardsOf(<<8, 9, 10, 11, 12>>, OneSuit(1)),
   CardsOf(<<11, 10, 9, 8, 7>>, OneSuit(0)),
   CardsOf(<<12, 0, 1, 2, 3>>, OneSuit(2)),
   CardsOf(<<4, 3, 2, 1, 0>>, OneSuit(3)),
   CardsOf(<<12, 12, 12, 12, 11>>, <<0, 1, 2, 3, 0>>),
   CardsOf(<<12, 12, 12, 12, 10>>, <<0, 1, 2, 3, 0>>),
   CardsOf(<<0, 0, 0, 0, 12>>, <<0, 1, 2, 3, 1>>),
   CardsOf(<<12, 12, 12, 11, 11>>, <<0, 1, 2, 0, 1>>),
   CardsOf(<<11, 11, 11, 12, 12>>, <<1, 2, 3, 2, 3>>),
   CardsOf(<<12, 10, 8, 6, 4>>, OneSuit(0)),
   CardsOf(<<4, 6, 8, 10, 12>>, OneSuit(1)),
   CardsOf(<<12, 10, 8, 6, 3>>, OneSuit(2)),
   CardsOf(<<12, 11, 10, 9, 8>>, <<0, 1, 0, 1, 0>>),
   CardsOf(<<12, 0, 1, 2, 3>>, <<0, 1, 0, 1, 0>>),
   CardsOf(<<4, 3, 2, 1, 0>>, <<0, 1, 0, 1, 0>>),
   CardsOf(<<7, 7, 7, 12, 2>>, <<0, 1, 2, 0, 1>>),
   CardsOf(<<7, 7, 7, 12, 1>>, <<0, 1, 2, 0, 1>>),
   CardsOf(<<9, 9, 5, 5, 12>>, <<0, 1, 0, 1, 2>>),
   CardsOf(<<9, 9, 5, 5, 11>>, <<2, 3, 2, 3, 2>>),
   CardsOf(<<6, 6, 12, 10, 2>>, <<0, 1, 2, 3, 0>>),
   CardsOf(<<6, 6, 12, 10, 1>>, <<2, 3, 0, 1, 2>>),
   CardsOf(<<12, 10, 8, 6, 3>>, <<0, 1, 2, 3, 0>>),
   CardsOf(<<12, 10, 8, 6, 3>>, <<1, 2, 3, 0, 1>>),
   CardsOf(<<12, 10, 8, 6, 2>>, <<0, 1, 2, 3, 0>>),
   CardsOf(<<11, 9, 7, 5, 3>>, <<0, 1, 2, 3, 0>>),
   CardsOf(<<12, 12, 5, 9, 5, 9, 2>>, <<0, 1, 0, 1, 2, 3, 0>>)}

IdleTable ==
  /\ seats = NewTable.seats
  /\ players = NewTable.players
  /\ deck = NewTable.deck
  /\ communityCards = NewTable.communityCards
  /\ pot = NewTable.pot
  /\ phase = NewTable.phase
  /\ dealerSeat = NewTable.dealerSeat
  /\ currentPlayerSeat = NewTable.currentPlayerSeat
  /\ currentBet = NewTable.currentBet
  /\ minRaise = NewTable.minRaise
  /\ handNumber = NewTable.handNumber
  /\ deckCommitment = NewTable.deckCommitment

HandInit ==
  /\ IdleTable
  /\ now = 0
  /\ joins = 0
  /\ leaves = 0
  /\ dealt = <<>>
  /\ deckReveal = NoReveal
  /\ hands = <<>>
  /\ IdleServer

\* evaluateHand(cards): the caller keeps the hand returned
Evaluate ==
  \E cards \in SampleCards :
    /\ Len(hands) < MaxCompared
    /\ hands' = Append(hands, EvaluateHand(cards))
    /\ UNCHANGED <<tableVars, now, joins, leaves, dealt, deckReveal, serverVars>>

HandNext == Evaluate

HandSpec == HandInit /\ [][HandNext]_vars

\* C22: compareHands is a total preorder on evaluated hands: compare(A, B)
\* and compare(B, A) have opposite signs; compare(A, B) >= 0 and
\* compare(B, C) >= 0 imply compare(A, C) >= 0; and compare(A, B) = 0 exactly
\* when A and B have the same ranking and the same kicker array.
C22_CompareIsTotalPreorder ==
  \A i, j, k \in DOMAIN hands :
    LET A == hands[i]
        B == hands[j]
        C == hands[k]
    IN  /\ Gt(CompareHands(A, B), 0) <=> Lt(CompareHands(B, A), 0)
        /\ StrictEq(CompareHands(A, B), 0) <=> StrictEq(CompareHands(B, A), 0)
        /\ (Le(0, CompareHands(A, B)) /\ Le(0, CompareHands(B, C)))
             => Le(0, CompareHands(A, C))
        /\ StrictEq(CompareHands(A, B), 0)
             <=> (A.ranking = B.ranking /\ A.kickers = B.kickers)
        /\ ~IsNaN(CompareHands(A, B))

\* three hands are held: two pairs that differ in the last kicker only, and
\* a hand of another category
C22_ThreeHandsCompared ==
  /\ Len(hands) = 3
  /\ hands[1].ranking = PAIR
  /\ hands[2].ranking = PAIR
  /\ hands[1].kickers # hands[2].kickers
  /\ SubSeq(hands[1].kickers, 1, 3) = SubSeq(hands[2].kickers, 1, 3)
  /\ hands[3].ranking = STRAIGHT

\* the players whose action _validateAction accepts in the current state
CurrentPlayers ==
  {id \in PlayerIds : ValidateAction(Table, id) = Ok /\ HasPlayer(Table, id)}

\* the amounts a raise is tried with: the inputs of the Raise action, nothing,
\* one and two big blinds, the whole stack and one chip more than the stack
RaiseInputs(id) ==
  RaiseAmounts \cup {0, Chips(bigBlind), Chips(2 * bigBlind),
                     players[id].chips, Add(players[id].chips, Chips(1))}

\* what the claim says of a successful raise, of table `s' after it
RaiseEffect(s, id, amount) ==
  LET toCall == Sub(currentBet, players[id].currentBet)
  IN  /\ s.players[id].chips = Sub(players[id].chips, amount)
      /\ s.pot = Add(pot, amount)
      /\ s.currentBet = s.players[id].currentBet
      /\ s.minRaise = MathMax(minRaise, Sub(amount, toCall))

CallEffect(s, id) ==
  LET player == players[id]
      actualCall == MathMin(Sub(currentBet, player.currentBet), player.chips)
  IN  /\ s.players[id].chips = Sub(player.chips, actualCall)
      /\ s.pot = Add(pot, actualCall)
      /\ s.players[id].currentBet = Add(player.currentBet, actualCall)
      /\ s.players[id].totalBetThisHand = Add(player.totalBetThisHand, actualCall)
      /\ s.players[id].allIn <=> StrictEq(s.players[id].chips, 0)

\* C24: call(id) by the current player moves exactly
\* min(currentBet - the player's current-round bet, the player's stack) from
\* the stack to the pot and to the player's current-round and total bets and
\* marks the player all-in exactly when the stack reaches zero (of the table
\* as call hands it to _advanceGame, and of the table returned when the
\* betting round stays open); it fails with NothingToCall, changing nothing,
\* when the player's current-round bet is not below currentBet.
C24_CallContract ==
  \A id \in CurrentPlayers :
    LET r == call(Table, id)
    IN  IF Lt(players[id].currentBet, currentBet)
        THEN /\ r.err # NothingToCall
             /\ CallEffect(Calls(Table, id), id)
             /\ r = AdvanceGame(Calls(Table, id))
             /\ (r.err = Ok /\ r.phase = phase) => CallEffect(r, id)
        ELSE r = Throw(Table, NothingToCall)

\* seat `s' of table `t' holds a player who is neither folded nor all-in
LiveSeat(t, s) ==
  /\ t.seats[s] # NoPlayer
  /\ HasPlayer(t, t.seats[s])
  /\ ~t.players[t.seats[s]].folded
  /\ ~t.players[t.seats[s]].allIn

\* `n' is the first live seat of `t' after `seat' in cyclic seat order
FirstLiveSeatAfter(t, seat, n) ==
  \E k \in 1..maxPlayers :
    /\ n = (seat + k) % maxPlayers
    /\ LiveSeat(t, n)
    /\ \A j \in 1..(k - 1) : ~LiveSeat(t, (seat + j) % maxPlayers)

\* C25: when a successful fold, check, call, raise or allIn leaves the hand
\* running and the betting round open (the phase is the one before the
\* call), the new current seat is the first seat after the acting player's
\* seat, in cyclic seat order, whose occupant is neither folded nor all-in;
\* a fold changes neither the folding player's chips nor the pot.
C25_NextActorAndFold ==
  \A id \in CurrentPlayers :
    /\ \A r \in ActionsBy(id) \cup {raise(Table, id, players[id].chips)} :
         (r.err = Ok /\ r.phase = phase)
           => FirstLiveSeatAfter(r, IndexOf(seats, id), r.currentPlayerSeat)
    /\ \A r \in {Folds(Table, id), fold(Table, id)} :
         r.err = Ok => (r.pot = pot /\ r.players[id].chips = players[id].chips)

\* a hand is running after a fold, and the turn has passed over the seat
\* before the current one, whose occupant is folded or all-in
C25_TurnPassedOverDeadSeat ==
  /\ phase \in ActivePhases
  /\ currentPlayerSeat \in 0..(maxPlayers - 1)
  /\ LiveSeat(Table, currentPlayerSeat)
  /\ LET before == (currentPlayerSeat + maxPlayers - 1) % maxPlayers
     IN  /\ seats[before] # NoPlayer
         /\ HasPlayer(Table, seats[before])
         /\ players[seats[before]].folded
         /\ players[seats[before]].lastAction = "fold"
         /\ players[seats[before]].chips = Chips(40)
  /\ \E id \in DOMAIN players : players[id].lastAction = "raise"
  /\ pot = Chips(41)

\* the ids that post the blinds of a hand started on the table as it is: the
\* occupants of the first two occupied seats after the new dealer seat
BlindPosters ==
  LET dealer == NextOccupiedSeat(seats, dealerSeat)
      sbSeat == NextOccupiedSeat(seats, dealer)
  IN  <<seats[sbSeat], seats[NextOccupiedSeat(seats, sbSeat)]>>

\* C26: startHand fails with NotEnoughPlayers, leaving the hand counter, deck,
\* commitment, phase, pot and every player unchanged, whenever fewer than two
\* seated players have chips; every successful startHand increases the hand
\* counter by exactly one, sets the pot to the sum of the two blinds posted
\* (each min(blind, poster's stack)) and leaves the chips of every player who
\* posts no blind unchanged.
C26_StartHandContract ==
  \A seed \in Seeds :
    LET r == startHand(Table, seed)
    IN  /\ Cardinality(SeatedWithChips(Table)) < 2
             => r = Throw(Table, NotEnoughPlayers)
        /\ r.err = Ok =>
             /\ r.handNumber = handNumber + 1
             /\ r.pot = Add(MathMin(Chips(smallBlind), players[BlindPosters[1]].chips),
                            MathMin(Chips(bigBlind), players[BlindPosters[2]].chips))
             /\ \A id \in DOMAIN players :
                  (id # BlindPosters[1] /\ id # BlindPosters[2])
                    => r.players[id].chips = players[id].chips

\* the second hand has started with three players seated: the poster of the
\* small blind had a single chip and is all-in for it, and the player who
\* posted no blind still has the stack the first hand left
C26_SecondHandShortBlind ==
  /\ handNumber = 2
  /\ phase = PREFLOP
  /\ Cardinality(DOMAIN players) = 3
  /\ \E id \in DOMAIN players :
       /\ players[id].allIn
       /\ players[id].chips = 0
       /\ players[id].currentBet = Chips(1)
       /\ players[id].lastAction = "null"
  /\ \E id \in DOMAIN players :
       /\ players[id].totalBetThisHand = 0
       /\ players[id].lastAction = "null"
  /\ pot = Chips(3)

\* every player-id of the player map is in exactly one seat and every
\* occupied seat holds a player-id of the player map
SeatsMatchPlayers ==
  /\ \A id \in DOMAIN players :
       Cardinality({s \in SeatIndexes : seats[s] = id}) = 1
  /\ \A s \in SeatIndexes : seats[s] # NoPlayer => seats[s] \in DOMAIN players

\* a player who stays in the player map stays in the same seat
SeatKept ==
  \A id \in DOMAIN players \cap DOMAIN players' :
    IndexOf(seats', id) = IndexOf(seats, id)

\* C27: in every reachable state each player-id of the player map occupies
\* exactly one seat and every occupied seat holds the id of a player of the
\* player map, and the seat of a player does not change between the
\* addPlayer that seated them and the removePlayer that removes them.
C27_SeatsAndPlayersAgree == []SeatsMatchPlayers /\ [][SeatKept]_vars

\* C28: addPlayer fails with InvalidBuyIn when buyIn is outside
\* [minBuyIn, maxBuyIn] and with TableFull when every seat is occupied, in
\* both cases leaving seats and players unchanged; otherwise it seats the new
\* player with chips equal to buyIn at the requested seat if that seat exists
\* and is free, else at the lowest-index free seat, and changes no other seat
\* or player.
C28_AddPlayerContract ==
  \A m \in Agents, buyIn \in BuyIns, preferredSeat \in PreferredSeats \cup {1, maxPlayers},
     time \in Times :
    LET r == addPlayer(Table, m, buyIn, preferredSeat, time)
        id == PlayerId(m, time)
        free == {s \in SeatIndexes : seats[s] = NoPlayer}
        seat == IF preferredSeat \in free THEN preferredSeat
                ELSE CHOOSE s \in free : \A q \in free : s <= q
    IN  IF Lt(buyIn, Chips(minBuyIn)) \/ Gt(buyIn, Chips(maxBuyIn))
        THEN r = Throw(Table, InvalidBuyIn)
        ELSE IF free = {} THEN r = Throw(Table, TableFull)
        ELSE /\ r.err = Ok
             /\ r.seats = [seats EXCEPT ![seat] = id]
             /\ id \in DOMAIN r.players
             /\ r.players[id].chips = buyIn
             /\ \A q \in DOMAIN players : r.players[q] = players[q]

\* C29: removePlayer(id) of a seated player returns exactly that player's
\* chip stack, empties that player's seat, deletes the player record and
\* changes no other player's chips; removePlayer of an id that is not in the
\* player map returns null and changes nothing.
C29_RemovePlayerContract ==
  \A id \in PlayerIds :
    LET r == removePlayer(Table, id)
    IN  IF id \in DOMAIN players
        THEN /\ RemovedChips(Table, id) = players[id].chips
             /\ \A s \in SeatIndexes : r.seats[s] # id
             /\ \A s \in SeatIndexes : seats[s] # id => r.seats[s] = seats[s]
             /\ DOMAIN r.players = DOMAIN players \ {id}
             /\ \A q \in DOMAIN r.players : r.players[q] = players[q]
        ELSE /\ RemovedChips(Table, id) = NullChips
             /\ r = [Table EXCEPT !.err = Ok]

\* the players of `t' who hold hole cards
Holders(t) == {id \in DOMAIN t.players : Len(t.players[id].holeCards) > 0}

\* tables that differ from `t' only in the hole cards dealt and in the order
\* of the undealt deck: the hole cards of `p' and `q' exchanged
HoleCardsExchanged(t, p, q) ==
  [t EXCEPT !.players[p].holeCards = t.players[q].holeCards,
            !.players[q].holeCards = t.players[p].holeCards]

\* the undealt deck in reverse order
DeckReversed(t) == [t EXCEPT !.deck.cards = Reverse(@)]

\* the first hole card of `id' exchanged with the next card of the deck
HoleCardFromDeck(t, id) ==
  [t EXCEPT !.players[id].holeCards = <<DealtCard(t.deck)>> \o Tail(@),
            !.deck.cards = DeckAfterDeal(t.deck).cards \o <<t.players[id].holeCards[1]>>]

\* the snapshot of `t' is the snapshot of each of these other deals
SameForOtherDeals(Snapshot(_), t) ==
  /\ Snapshot(DeckReversed(t)) = Snapshot(t)
  /\ \A p \in Holders(t), q \in Holders(t) :
       Snapshot(HoleCardsExchanged(t, p, q)) = Snapshot(t)
  /\ \A id \in Holders(t) :
       ~DeckEmpty(t.deck) => Snapshot(HoleCardFromDeck(t, id)) = Snapshot(t)

\* a snapshot whose player entries carry no holeCards field
NoHoleCardsIn(snapshot) ==
  \A id \in DOMAIN snapshot.players : "holeCards" \notin DOMAIN snapshot.players[id]

\* C30: the public snapshot contains a player's hole cards only when the phase
\* is SHOWDOWN and that player has not folded; in every other phase two
\* tables that differ only in the hole cards dealt and in the undealt deck
\* order have identical public snapshots; and the state snapshot returned by
\* startHand and by an action that does not end the hand contains no hole
\* cards (it has no holeCards field and is the same for every such deal).
C30_SnapshotsHideHoleCards ==
  /\ \A id \in DOMAIN players :
       "holeCards" \in DOMAIN GetPublicState(Table).players[id]
         => (phase = SHOWDOWN /\ ~players[id].folded)
  /\ phase # SHOWDOWN =>
       SameForOtherDeals(GetPublicState, Table)
  /\ \A r \in {startHand(Table, seed) : seed \in Seeds} \cup ActionOutcomes :
       (r.err = Ok /\ r.phase # SHOWDOWN) =>
         /\ NoHoleCardsIn(GetGameState(r))
         /\ SameForOtherDeals(GetGameState, r)

\* on the flop two players hold hole cards that differ, another deal of them
\* is another table, and the public snapshot says of both that they have cards
C30_HoleCardsHiddenOnFlop ==
  /\ phase = FLOP
  /\ Len(communityCards) = 3
  /\ \E p, q \in DOMAIN players :
       /\ Len(players[p].holeCards) = 2
       /\ Len(players[q].holeCards) = 2
       /\ players[p].holeCards # players[q].holeCards
       /\ GetPublicState(Table).players[p].hasCards
       /\ GetPublicState(Table).players[q].hasCards
       /\ HoleCardsExchanged(Table, p, q).players[p] # players[p]

\* the number of community cards the phase allows
CommunityCardsMatchPhase ==
  /\ phase \in {WAITING, PREFLOP} => Len(communityCards) = 0
  /\ phase = FLOP => Len(communityCards) = 3
  /\ phase = TURN => Len(communityCards) = 4
  /\ phase = RIVER => Len(communityCards) = 5
  /\ phase = SHOWDOWN => Len(communityCards) \in {0, 3, 4, 5}
  /\ (phase = SHOWDOWN /\ deck.revealed) => Len(communityCards) = 5

\* a step that is not a startHand keeps the community cards it finds and
\* may append to them
CommunityCardsKept ==
  handNumber' = handNumber =>
    /\ Len(communityCards') >= Len(communityCards)
    /\ SubSeq(communityCards', 1, Len(communityCards)) = communityCards

\* C31: the number of community cards always matches the phase (0 in WAITING
\* and PREFLOP, 3 in FLOP, 4 in TURN, 5 in RIVER, 0, 3, 4 or 5 in SHOWDOWN and
\* 5 when the hand ended by an evaluated showdown, the one that reveals the
\* deck), and community cards are only appended during a hand, never changed
\* or removed before the next startHand.
C31_CommunityCardsFollowPhase ==
  []CommunityCardsMatchPhase /\ [][CommunityCardsKept]_vars

\* a hand has been played to an evaluated showdown over a five-card board
C31_ShowdownOverFullBoard ==
  /\ phase = SHOWDOWN
  /\ deck.revealed
  /\ Len(communityCards) = 5
  /\ Cardinality(GetPlayersInHand(Table)) >= 2

\* `n' is the first occupied seat of `t' after `seat' in cyclic seat order
FirstOccupiedAfter(t, seat, n) ==
  \E k \in 1..maxPlayers :
    /\ n = (seat + k) % maxPlayers
    /\ t.seats[n] # NoPlayer
    /\ \A j \in 1..(k - 1) : t.seats[(seat + j) % maxPlayers] = NoPlayer

\* player `id' of `r' has posted `blind' out of the stack it had in the
\* current state, and is all-in exactly when that stack is exhausted
HasPosted(r, id, blind) ==
  LET amount == MathMin(blind, players[id].chips)
  IN  /\ r.players[id].currentBet = amount
      /\ r.players[id].totalBetThisHand = amount
      /\ r.players[id].chips = Sub(players[id].chips, amount)
      /\ r.players[id].allIn <=> StrictEq(r.players[id].chips, 0)

RankValues == 0 .. (NumRanks - 1)

FiveRanks ==
  {r \in RankValues \X RankValues \X RankValues \X RankValues \X RankValues :
     r[1] <= r[2] /\ r[2] <= r[3] /\ r[3] <= r[4] /\ r[4] <= r[5] /\ r[1] # r[5]}

MixedSuits == <<0, 1, 2, 3, 0>>

FiveCardHands ==
  {CardsOf(r, MixedSuits) : r \in FiveRanks}
    \cup {CardsOf(r, OneSuit(1)) :
            r \in {q \in FiveRanks : q[1] < q[2] /\ q[2] < q[3] /\ q[3] < q[4] /\ q[4] < q[5]}}

FiveCardInit == HandInit

\* five cards reach the caller
DealFive ==
  \E cards \in FiveCardHands :
    /\ dealt = <<>>
    /\ dealt' = cards
    /\ UNCHANGED <<tableVars, now, joins, leaves, deckReveal, hands, serverVars>>

\* evaluateHand(cards) of the five cards dealt
EvaluateDealt ==
  /\ Len(dealt) = 5
  /\ hands = <<>>
  /\ hands' = <<EvaluateHand(dealt)>>
  /\ UNCHANGED <<tableVars, now, joins, leaves, dealt, deckReveal, serverVars>>

FiveCardNext == DealFive \/ EvaluateDealt

FiveCardSpec == FiveCardInit /\ [][FiveCardNext]_vars

\* the rank values of the cards dealt, and whether they are of one suit
DealtValues == {CardValue(dealt[i]) : i \in DOMAIN dealt}

DealtSuited == \A i \in DOMAIN dealt : CardSuit(dealt[i]) = CardSuit(dealt[1])

\* the cards dealt are A-2-3-4-5
DealtWheel == Len(dealt) = 5 /\ DealtValues = {12, 0, 1, 2, 3}

\* the cards dealt are 10-J-Q-K-A
DealtBroadway == Len(dealt) = 5 /\ DealtValues = {8, 9, 10, 11, 12}

\* the wheel as evaluateHand returns it, in mixed suits and in one suit
WheelHand == EvaluateHand(CardsOf(<<0, 1, 2, 3, 12>>, MixedSuits))

WheelFlushHand == EvaluateHand(CardsOf(<<0, 1, 2, 3, 12>>, OneSuit(1)))

\* C33: for every 5-card hand, the wheel A-2-3-4-5 is classified as a straight
\* (a straight flush when suited, never a royal flush) and compares strictly
\* below every other straight (every other straight flush) and strictly above
\* every three-of-a-kind; an ace-high straight flush is the only hand
\* classified as royal flush.
C33_WheelIsLowestStraight ==
  Len(hands) = 1 =>
    LET hand == hands[1]
    IN  /\ DealtWheel =>
             hand.ranking = IF DealtSuited THEN STRAIGHT_FLUSH ELSE STRAIGHT
        /\ (hand.ranking = STRAIGHT /\ ~DealtWheel)
             => Lt(CompareHands(WheelHand, hand), 0)
        /\ (hand.ranking = STRAIGHT_FLUSH /\ ~DealtWheel)
             => Lt(CompareHands(WheelFlushHand, hand), 0)
        /\ hand.ranking = THREE_OF_A_KIND
             => (Gt(CompareHands(WheelHand, hand), 0)
                   /\ Gt(CompareHands(WheelFlushHand, hand), 0))
        /\ hand.ranking = ROYAL_FLUSH <=> (DealtSuited /\ DealtBroadway)

\* the wheel has been dealt in mixed suits and evaluated as a five-high straight
C33_WheelEvaluated ==
  /\ DealtWheel
  /\ ~DealtSuited
  /\ Len(hands) = 1
  /\ hands[1] = Hand(STRAIGHT, <<3>>)

\* the players of table `s' who can still act in the hand: dealt in, not
\* folded and not all-in
AbleToAct(s) == {q \in GetPlayersInHand(s) : ~s.players[q].allIn}

\* C34: in a betting round with two or more non-folded players able to act,
\* the phase does not advance until each of them has acted at least once in
\* that round (lastAction, which every round clears, is set): an accepted
\* action after which two or more players can act and one of them has not yet
\* acted leaves the phase as it is; in particular a single check by the first
\* actor of a post-flop round does not close the round.
C34_RoundWaitsForEveryPlayer ==
  \A x \in BettingActions :
    (/\ x[2].err = Ok
     /\ Cardinality(AbleToAct(x[1])) >= 2
     /\ \E q \in AbleToAct(x[1]) : x[1].players[q].lastAction = NoAction)
      => x[2].phase = phase

\* the chips a player may have put in the pot of the hand: anything for a
\* blind poster or a player holding hole cards, nothing for anybody else
DealtInOrBlind(id) ==
  \/ Len(players[id].holeCards) > 0
  \/ seats[GetSmallBlindSeat(Table)] = id
  \/ seats[GetBigBlindSeat(Table)] = id

\* C35: during an active hand only players dealt into the hand can act or put
\* chips in the pot: currentPlayerSeat never designates a player without hole
\* cards, and every chip in the pot comes from a blind poster or from a player
\* holding hole cards (anybody else has bet nothing in the hand).
C35_OnlyDealtPlayersAct ==
  phase \in ActivePhases =>
    /\ (currentPlayerSeat \in SeatIndexes /\ seats[currentPlayerSeat] # NoPlayer
          /\ HasPlayer(Table, seats[currentPlayerSeat]))
         => Len(players[seats[currentPlayerSeat]].holeCards) > 0
    /\ \A id \in DOMAIN players :
         ~DealtInOrBlind(id) => players[id].totalBetThisHand = 0

\* some player can take a legal action: a fold, check, call, raise or allIn
\* that the table accepts
SomeLegalAction ==
  \E id \in PlayerIds :
    \E r \in ActionsBy(id) \cup {raise(Table, id, Chips(bigBlind))} : r.err = Ok

\* C36: every started hand terminates: no reachable state with phase PREFLOP,
\* FLOP, TURN or RIVER is stuck with no player able to take a legal action
\* (so that a hand whose actor keeps acting reaches SHOWDOWN).
C36_NoStuckHand == phase \in ActivePhases => SomeLegalAction

\* a step in which startHand ran through (the hand counter changed) was taken
\* on a table that had no hand in progress
StartsBetweenHands == handNumber' # handNumber => phase \notin ActivePhases

\* C37: under every interleaving of the join_table auto-start timer, the
\* restart timers and the POST /api/table/:id/start endpoint, startHand is
\* never executed on a table whose phase is PREFLOP, FLOP, TURN or RIVER, so a
\* hand in progress is never restarted and its pot never reset.
C37_NoRestartOfRunningHand == [][StartsBetweenHands]_vars

\* ------------------------------------------------------ the off-table ledgers
\* The server's token endpoints and its join_table handler, with the table
\* between hands.  An asynchronous call runs up to its first await in one
\* step and resumes in a later one; other requests run in between.
MaxRequests == 2

\* the agents that send requests
Clients == {"a", "b"}

SOLANA == "solana"
BASE == "base"
Chains == {SOLANA, BASE}

\* a transaction on the Base chain, and the $BELIAL its Transfer logs moved to
\* the house wallet
TxHashes == {"0x01"}

TransferAmount(txHash) == Chips(minBuyIn)

NoTx == "none"

WithdrawAmounts == {Chips(minBuyIn)}

JoinBuyIns == {Chips(minBuyIn - 1), Chips(minBuyIn), Chips(minBuyIn + (minBuyIn \div 2))}

\* what a request is: the method and its arguments
VerifyDepositCall == "verifyDeposit"
WithdrawCall == "withdraw"

\* where a request is: suspended at an await, or ended
AwaitReceipt == "await getTransactionReceipt"
AwaitTransfer == "await transfer"
Returned == "returned"
Thrown == "thrown"

NoError == "none"
AlreadyProcessed == "Transaction already processed"
InsufficientBalance == "Insufficient balance"
VerificationFailed == "Deposit verification failed"
WithdrawalFailed == "Withdrawal failed"

\* getPlayerBalance of the manager of a chain
GetPlayerBalance(chain, m) ==
  IF chain = SOLANA THEN solanaBalances[m] ELSE baseBalances[m]

\* creditBalance: player.balance += amount
creditBalance(balances, m, amount) == [balances EXCEPT ![m] = Add(@, amount)]

\* debitBalance throws when player.balance < amount
DebitThrows(balances, m, amount) == Lt(balances[m], amount)

\* debitBalance: player.balance -= amount
debitBalance(balances, m, amount) == [balances EXCEPT ![m] = Sub(@, amount)]

\* the join_table handler up to table.addPlayer, as one value: the table and
\* the two ledgers it leaves, and the error it emits (Ok when the player is
\* seated).  The handler catches what debitBalance and addPlayer throw and
\* emits the message; it restores nothing.
joinTable(m, buyIn, time) ==
  LET solanaBalance == solanaBalances[m]
      baseBalance == baseBalances[m]
      totalBalance == Add(solanaBalance, baseBalance)
      fromSolana == MathMin(solanaBalance, buyIn)
      debitsSolana == Gt(solanaBalance, 0)
      remaining == IF debitsSolana THEN Sub(buyIn, fromSolana) ELSE buyIn
      debitsBase == Gt(remaining, 0) /\ Gt(baseBalance, 0)
      solana == IF debitsSolana THEN debitBalance(solanaBalances, m, fromSolana)
                ELSE solanaBalances
      base == IF debitsBase THEN debitBalance(baseBalances, m, remaining)
              ELSE baseBalances
      seated == addPlayer(Table, m, buyIn, NullSeat, time)
  IN  IF Lt(buyIn, Chips(minBuyIn)) \/ Gt(buyIn, Chips(maxBuyIn))
      THEN [table |-> Table, solana |-> solanaBalances, base |-> baseBalances,
            err |-> InvalidBuyIn]
      ELSE IF Lt(totalBalance, buyIn)
      THEN [table |-> Table, solana |-> solanaBalances, base |-> baseBalances,
            err |-> InsufficientBalance]
      ELSE IF debitsSolana /\ DebitThrows(solanaBalances, m, fromSolana)
      THEN [table |-> Table, solana |-> solanaBalances, base |-> baseBalances,
            err |-> InsufficientBalance]
      ELSE IF debitsBase /\ DebitThrows(baseBalances, m, remaining)
      THEN [table |-> Table, solana |-> solana, base |-> baseBalances,
            err |-> InsufficientBalance]
      ELSE [table |-> seated, solana |-> solana, base |-> base, err |-> seated.err]

\* a request as verifyDeposit or withdraw leaves it at its first await or at
\* the throw before it
NewRequest(method, chain, m, txHash, amount, at, error) ==
  [method |-> method, chain |-> chain, moltbookId |-> m, txHash |-> txHash,
   amount |-> amount, at |-> at, error |-> error]

\* the balances a server restarted from its saved state holds (importState)
SavedBalances == {0, Chips(minBuyIn)}

LedgerInit ==
  /\ IdleTable
  /\ now = 0
  /\ joins = 0
  /\ leaves = 0
  /\ dealt = <<>>
  /\ deckReveal = NoReveal
  /\ hands = <<>>
  /\ \E s \in SavedBalances : solanaBalances = [m \in Agents |-> s]
  /\ \E b \in SavedBalances : baseBalances = [m \in Agents |-> b]
  /\ processedTxs = {}
  /\ requests = <<>>

\* socket event join_table
JoinTable ==
  \E m \in Agents, buyIn \in JoinBuyIns, time \in Times :
    /\ time \in {now, now + 1}
    /\ \E r \in {joinTable(m, buyIn, time)} :
         /\ Becomes(r.table)
         /\ solanaBalances' = r.solana
         /\ baseBalances' = r.base
         /\ joins' = IF r.err = Ok THEN joins + 1 ELSE joins
    /\ now' = time
    /\ UNCHANGED <<leaves, callerVars, processedTxs, requests>>

\* POST /api/wallet/base/verify-deposit: verifyDeposit up to its await
VerifyDeposit ==
  \E m \in Clients, txHash \in TxHashes :
    /\ Len(requests) < MaxRequests
    /\ requests' = Append(requests,
         IF txHash \in processedTxs
         THEN NewRequest(VerifyDepositCall, BASE, m, txHash, 0, Thrown, AlreadyProcessed)
         ELSE NewRequest(VerifyDepositCall, BASE, m, txHash, 0, AwaitReceipt, NoError))
    /\ UNCHANGED <<tableVars, now, joins, leaves, callerVars,
                   solanaBalances, baseBalances, processedTxs>>

\* getTransactionReceipt returns or fails, and verifyDeposit runs to its end
DepositReceipt ==
  \E i \in DOMAIN requests, found \in BOOLEAN :
    LET r == requests[i]
        amount == TransferAmount(r.txHash)
    IN  /\ r.at = AwaitReceipt
        /\ IF found
           THEN /\ processedTxs' = processedTxs \cup {r.txHash}
                /\ baseBalances' = creditBalance(baseBalances, r.moltbookId, amount)
                /\ requests' = [requests EXCEPT ![i].at = Returned, ![i].amount = amount]
           ELSE /\ requests' = [requests EXCEPT ![i].at = Thrown,
                                                ![i].error = VerificationFailed]
                /\ UNCHANGED <<processedTxs, baseBalances>>
        /\ UNCHANGED <<tableVars, now, joins, leaves, callerVars, solanaBalances>>

\* POST /api/wallet/withdraw and /api/wallet/base/withdraw: withdraw up to the
\* await that sends the transfer
Withdraw ==
  \E chain \in Chains, m \in Clients, amount \in WithdrawAmounts :
    /\ Len(requests) < MaxRequests
    /\ requests' = Append(requests,
         IF Lt(GetPlayerBalance(chain, m), amount)
         THEN NewRequest(WithdrawCall, chain, m, NoTx, amount, Thrown, InsufficientBalance)
         ELSE NewRequest(WithdrawCall, chain, m, NoTx, amount, AwaitTransfer, NoError))
    /\ UNCHANGED <<tableVars, now, joins, leaves, callerVars,
                   solanaBalances, baseBalances, processedTxs>>

\* the transfer is confirmed or fails, and withdraw runs to its end
WithdrawTransferred ==
  \E i \in DOMAIN requests, sent \in BOOLEAN :
    LET r == requests[i]
    IN  /\ r.at = AwaitTransfer
        /\ IF sent
           THEN /\ solanaBalances' = IF r.chain = SOLANA
                                     THEN debitBalance(solanaBalances, r.moltbookId, r.amount)
                                     ELSE solanaBalances
                /\ baseBalances' = IF r.chain = BASE
                                   THEN debitBalance(baseBalances, r.moltbookId, r.amount)
                                   ELSE baseBalances
                /\ requests' = [requests EXCEPT ![i].at = Returned]
           ELSE /\ requests' = [requests EXCEPT ![i].at = Thrown,
                                                ![i].error = WithdrawalFailed]
                /\ UNCHANGED <<solanaBalances, baseBalances>>
        /\ UNCHANGED <<tableVars, now, joins, leaves, callerVars, processedTxs>>

LedgerNext ==
  \/ JoinTable
  \/ VerifyDeposit
  \/ DepositReceipt
  \/ Withdraw
  \/ WithdrawTransferred

LedgerSpec == LedgerInit /\ [][LedgerNext]_vars

\* the amount the finished calls of verifyDeposit credited for a transaction
RECURSIVE CreditedUpTo(_, _)
CreditedUpTo(txHash, n) ==
  IF n = 0 THEN 0
  ELSE CreditedUpTo(txHash, n - 1)
       + (IF requests[n].method = VerifyDepositCall /\ requests[n].txHash = txHash
             /\ requests[n].at = Returned
          THEN requests[n].amount ELSE 0)

CreditedFor(txHash) == CreditedUpTo(txHash, Len(requests))

\* for every txHash the calls of verifyDeposit credited at most the
\* transaction's transfer amount
CreditedAtMostOnce ==
  \A txHash \in TxHashes : CreditedFor(txHash) <= TransferAmount(txHash)

\* a call of verifyDeposit made once a call for the same txHash has succeeded
\* fails with 'Transaction already processed'
LaterCallsRejected ==
  \A i \in DOMAIN requests, j \in DOMAIN requests' \ DOMAIN requests :
    /\ requests[i].method = VerifyDepositCall
    /\ requests[i].at = Returned
    /\ requests'[j].method = VerifyDepositCall
    /\ requests'[j].txHash = requests[i].txHash
    => requests'[j].at = Thrown /\ requests'[j].error = AlreadyProcessed

\* C38: a Base deposit transaction is credited at most once: for every txHash
\* and every interleaving of concurrent verifyDeposit calls, the total amount
\* credited for the txHash is at most the transaction's transfer amount, and
\* every call made after the first successful one fails with 'Transaction
\* already processed'.
C38_DepositCreditedOnce == []CreditedAtMostOnce /\ [][LaterCallsRejected]_vars

\* no agent's off-table balance is negative, on either ledger
BalancesNonNegative ==
  \A m \in Agents : solanaBalances[m] >= 0 /\ baseBalances[m] >= 0

\* a withdrawal that pays out (its transfer is confirmed and the call
\* returns) pays at most the balance the agent holds at that moment
PayoutsCovered ==
  \A i \in DOMAIN requests :
    /\ requests[i].method = WithdrawCall
    /\ requests[i].at = AwaitTransfer
    /\ requests'[i].at = Returned
    => requests[i].amount <= GetPlayerBalance(requests[i].chain, requests[i].moltbookId)

\* C39: an agent's off-table balance never becomes negative and withdraw never
\* pays out more than the balance available, under every interleaving of
\* concurrent withdraw calls with each other and with debitBalance (buy-in),
\* on the Solana and on the Base ledger.
C39_WithdrawNeverOverdraws == []BalancesNonNegative /\ [][PayoutsCovered]_vars

\* the join_table requests an agent can send now, each with what it leaves
JoinOutcomes ==
  {<<m, buyIn, joinTable(m, buyIn, time)>> :
     m \in Agents, buyIn \in JoinBuyIns, time \in {now}}

\* the player a join seated holds chips equal to the buy-in
SeatedWithBuyIn(r, m, buyIn, time) ==
  /\ r.err = Ok
  /\ HasPlayer(r.table, PlayerId(m, time))
  /\ r.table.players[PlayerId(m, time)].chips = buyIn
  /\ \E s \in SeatIndexes : r.table.seats[s] = PlayerId(m, time) /\ seats[s] = NoPlayer

\* C40: a join_table request that does not seat the player (for example
\* because the table is full) leaves the agent's Solana and Base balances
\* unchanged: the buy-in is debited only for joins that end with the player
\* seated with chips equal to the buy-in.
C40_BuyInDebitedOnlyWhenSeated ==
  \A o \in JoinOutcomes :
    LET m == o[1]
        buyIn == o[2]
        r == o[3]
    IN  \/ SeatedWithBuyIn(r, m, buyIn, now)
        \/ r.solana = solanaBalances /\ r.base = baseBalances

====
